---- MODULE Spec2Model ----
(***************************************************************************)
(* A model of safety-postgres: the statement builders (Conditions,         *)
(* UpdateSets, InsertRecords, JoinTables, QueryColumns), the identifier    *)
(* validator and the PostgresBase operations that assemble a statement    *)
(* and hand it, with its parameter list, to the tokio-postgres driver.     *)
(*                                                                         *)
(* Text is modelled character by character: a text is a sequence of        *)
(* one-character strings, so that an identifier or a value that carries    *)
(* SQL syntax shows up in the rendered statement exactly as in the code.   *)
(***************************************************************************)
EXTENDS Integers, Sequences, FiniteSets, TLC

VARIABLES
    conditions,      \* the caller's Conditions: [logics, conditions]
    update_sets,     \* the caller's UpdateSets: sequence of [column, value]
    insert_records,  \* the caller's InsertRecords: [keys, insert_records]
    join_tables,     \* the caller's JoinTables: sequence of JoinTable
    query_columns,   \* the caller's QueryColumns: [all_columns, columns]
    base,            \* the PostgresBase: [table_name, schema_name, client]
    ret,             \* the most recent API call: its arguments, result and driver hand-off
    arg,             \* input of the pure function under check
    out,             \* its result
    generator,       \* the caller's QueryGenerator (its base table may hold another one)
    where_chain      \* a generator::base::condition::Conditions: [conditions, bind_methods]

vars == <<conditions, update_sets, insert_records, join_tables, query_columns,
          base, ret, arg, out, generator, where_chain>>

(***************************************************************************)
(* Bounds of the model.                                                    *)
(***************************************************************************)
MaxConditions == 2
MaxSets == 2
MaxRecords == 2
MaxJoins == 1
MaxColumns == 1
MaxNameLen == 2
MaxStart == 2
MaxWhere == 2
MaxHaving == 2
MaxGroupings == 1
MaxDigits == 2
MaxDateGroups == 5
MaxJoinTables == 1
MaxSortRules == 2
MaxChain == 3
MaxRows == 2

(***************************************************************************)
(* Text helpers: String::push / format! / Vec<String>::join.               *)
(***************************************************************************)
RECURSIVE join(_, _)
join(parts, sep) ==
    IF Len(parts) = 0 THEN <<>>
    ELSE IF Len(parts) = 1 THEN parts[1]
    ELSE parts[1] \o sep \o join(Tail(parts), sep)

DigitChars == <<"0", "1", "2", "3", "4", "5", "6", "7", "8", "9">>

\* Display for usize: the decimal digits of n, most significant first.
RECURSIVE to_string(_)
to_string(n) ==
    IF n < 10 THEN <<DigitChars[n + 1]>>
    ELSE to_string(n \div 10) \o <<DigitChars[(n % 10) + 1]>>

\* str::contains(char)
contains(text, c) == \E i \in 1..Len(text) : text[i] = c

\* str::ends_with(&str)
ends_with(text, suffix) ==
    /\ Len(text) >= Len(suffix)
    /\ SubSeq(text, Len(text) - Len(suffix) + 1, Len(text)) = suffix

\* str::is_empty
is_empty(x) == Len(x) = 0

SP == <<" ">>

(***************************************************************************)
(* Characters.  Alphabetic and Numeric classify the characters of the      *)
(* model's alphabet the way char::is_alphabetic and char::is_numeric do    *)
(* ("U+00E9" stands for the one character e-acute, a non-ASCII letter).    *)
(***************************************************************************)
Alphabetic == {"a", "b", "c", "d", "e", "f", "i", "j", "p", "s", "t", "u", "x",
               "A", "Z", "U+00E9"}
Numeric == {"0", "1", "2", "3", "4", "5", "6", "7", "8", "9"}
Symbols == {"_", ";", ".", " ", "'", "\"", "=", "<", ">", "$", "-", "(", ")", ","}
Chars == Alphabetic \cup Numeric \cup Symbols

\* char::is_alphanumeric
is_alphanumeric(c) == c \in Alphabetic \/ c \in Numeric

(***************************************************************************)
(* validators.rs                                                           *)
(***************************************************************************)
validate_alphanumeric_name_any(s, allow_chars) ==
    \E i \in 1..Len(s) : is_alphanumeric(s[i]) \/ contains(allow_chars, s[i])

validate_alphanumeric_name(s, allow_chars) ==
    \A i \in 1..Len(s) : is_alphanumeric(s[i]) \/ contains(allow_chars, s[i])

\* Ok(()) or the error the generator builds (InputInvalidError for every generator).
validate_string(str) ==
    IF ~validate_alphanumeric_name(str, <<"_">>)
    THEN "InputInvalidError"
    ELSE "Ok"

(***************************************************************************)
(* conditions.rs: ComparisonOperator, IsInJoinedTable, LogicalOperator,    *)
(* Condition, Conditions.                                                  *)
(***************************************************************************)
ComparisonOperator == {"Equal", "Lower", "Grater", "LowerEq", "GraterEq"}
LogicalOperator == {"FirstCondition", "And", "Or"}

No == [kind |-> "No", schema_name |-> <<>>, table_name |-> <<>>]
Yes(schema_name, table_name) ==
    [kind |-> "Yes", schema_name |-> schema_name, table_name |-> table_name]

\* Conditions::new
Conditions_new == [logics |-> <<>>, conditions |-> <<>>]

\* Conditions::is_empty
Conditions_is_empty(self) == is_empty(self.conditions)

\* The match arms of add_condition_from_str; "Err" is the `_` arm.
comparison_from_str(comparison_operator) ==
    CASE comparison_operator \in {"=", "equal", "eq"} -> "Equal"
      [] comparison_operator \in {">", "greater", "gt"} -> "Grater"
      [] comparison_operator \in {">=", "greater_equal", "ge", "greater_eq"} -> "GraterEq"
      [] comparison_operator \in {"<", "lower", "lt"} -> "Lower"
      [] comparison_operator \in {"<=", "lower_equal", "le", "lower_eq"} -> "LowerEq"
      [] OTHER -> "Err"

chain_from_str(condition_chain_operator) ==
    CASE condition_chain_operator \in {"", "first", "none"} -> "FirstCondition"
      [] condition_chain_operator \in {"and", "&"} -> "And"
      [] condition_chain_operator \in {"or", "|"} -> "Or"
      [] OTHER -> "Err"

CondErr(self, detail) ==
    [self |-> self, result |-> "InputInvalidError", detail |-> detail]

\* add_condition without the normalisation of the first marker
add_condition_unnormalized(self, column, value, comparison, condition_chain, is_joined_table_condition) ==
    IF validate_string(column) # "Ok" THEN CondErr(self, "invalid_characters")
    ELSE IF condition_chain = "FirstCondition" /\ ~is_empty(self.conditions)
    THEN CondErr(self, "already_condition_exists")
    ELSE IF /\ is_joined_table_condition.kind = "Yes"
            /\ ~is_empty(is_joined_table_condition.schema_name)
            /\ is_empty(is_joined_table_condition.table_name)
    THEN CondErr(self, "table_name_must_be_specified")
    ELSE [self |-> [logics |-> Append(self.logics, condition_chain),
                    conditions |-> Append(self.conditions,
                        [is_joined_table_condition |-> is_joined_table_condition,
                         key |-> column, operator |-> comparison, value |-> value])],
          result |-> "Ok", detail |-> "none"]

\* add_condition without the check for a second FirstCondition
add_condition_unchecked(self, column, value, comparison, condition_chain, is_joined_table_condition) ==
    IF validate_string(column) # "Ok" THEN CondErr(self, "invalid_characters")
    ELSE IF /\ is_joined_table_condition.kind = "Yes"
            /\ ~is_empty(is_joined_table_condition.schema_name)
            /\ is_empty(is_joined_table_condition.table_name)
    THEN CondErr(self, "table_name_must_be_specified")
    ELSE [self |-> [logics |-> Append(self.logics,
                        IF is_empty(self.conditions) THEN "FirstCondition" ELSE condition_chain),
                    conditions |-> Append(self.conditions,
                        [is_joined_table_condition |-> is_joined_table_condition,
                         key |-> column, operator |-> comparison, value |-> value])],
          result |-> "Ok", detail |-> "none"]

\* add_condition that pushes the marker before it looks at the joined table
add_condition_marker_pushed_first(self, column, value, comparison, condition_chain, is_joined_table_condition) ==
    IF validate_string(column) # "Ok" THEN CondErr(self, "invalid_characters")
    ELSE IF condition_chain = "FirstCondition" /\ ~is_empty(self.conditions)
    THEN CondErr(self, "already_condition_exists")
    ELSE LET pushed == [self EXCEPT !.logics =
                           Append(@, IF is_empty(self.conditions) THEN "FirstCondition"
                                     ELSE condition_chain)]
         IN IF /\ is_joined_table_condition.kind = "Yes"
               /\ ~is_empty(is_joined_table_condition.schema_name)
               /\ is_empty(is_joined_table_condition.table_name)
            THEN CondErr(pushed, "table_name_must_be_specified")
            ELSE [self |-> [pushed EXCEPT !.conditions =
                               Append(@, [is_joined_table_condition |-> is_joined_table_condition,
                                          key |-> column, operator |-> comparison,
                                          value |-> value])],
                  result |-> "Ok", detail |-> "none"]

\* Conditions::add_condition: the new Conditions and Ok, or self unchanged and the error.
add_condition(self, column, value, comparison, condition_chain, is_joined_table_condition) ==
    IF validate_string(column) # "Ok" THEN CondErr(self, "invalid_characters")
    ELSE IF condition_chain = "FirstCondition" /\ ~is_empty(self.conditions)
    THEN CondErr(self, "already_condition_exists")
    ELSE LET validated_condition_chain ==
                 IF condition_chain # "FirstCondition" /\ is_empty(self.conditions)
                 THEN "FirstCondition"
                 ELSE condition_chain
         IN IF /\ is_joined_table_condition.kind = "Yes"
               /\ ~is_empty(is_joined_table_condition.schema_name)
               /\ is_empty(is_joined_table_condition.table_name)
            THEN CondErr(self, "table_name_must_be_specified")
            ELSE [self |-> [logics |-> Append(self.logics, validated_condition_chain),
                            conditions |-> Append(self.conditions,
                                [is_joined_table_condition |-> is_joined_table_condition,
                                 key |-> column, operator |-> comparison, value |-> value])],
                  result |-> "Ok", detail |-> "none"]

\* Conditions::add_condition_from_str
add_condition_from_str(self, column, value, comparison_operator, condition_chain_operator, is_joined_table_condition) ==
    IF comparison_from_str(comparison_operator) = "Err"
    THEN CondErr(self, "comparison_operator")
    ELSE IF chain_from_str(condition_chain_operator) = "Err"
    THEN CondErr(self, "condition_chain_operator")
    ELSE add_condition(self, column, value, comparison_from_str(comparison_operator),
                       chain_from_str(condition_chain_operator), is_joined_table_condition)

operator_text(operator) ==
    CASE operator = "Equal" -> <<"=">>
      [] operator = "Lower" -> <<"<">>
      [] operator = "LowerEq" -> <<"<", "=">>
      [] operator = "Grater" -> <<">">>
      [] operator = "GraterEq" -> <<">", "=">>

\* Condition::generate_statement_text that always qualifies a joined-table column
Condition_generate_statement_text_always_qualified(self) ==
    LET j == self.is_joined_table_condition
        table_name ==
            IF j.kind = "Yes"
            THEN IF is_empty(j.schema_name)
                 THEN j.table_name \o <<".">> \o self.key
                 ELSE j.schema_name \o <<".">> \o j.table_name \o <<".">> \o self.key
            ELSE self.key
    IN table_name \o SP \o operator_text(self.operator)

\* Condition::generate_statement_text: "<qualified column> <operator>"
Condition_generate_statement_text(self) ==
    LET j == self.is_joined_table_condition
        table_name ==
            IF j.kind = "Yes"
            THEN IF is_empty(j.schema_name) /\ is_empty(j.table_name)
                 THEN self.key
                 ELSE IF is_empty(j.schema_name)
                 THEN j.table_name \o <<".">> \o self.key
                 ELSE j.schema_name \o <<".">> \o j.table_name \o <<".">> \o self.key
            ELSE self.key
    IN table_name \o SP \o operator_text(self.operator)

\* The statement_texts vector of Conditions::generate_statement_text after the
\* first n conditions: zip stops at the shorter of conditions and logics.
RECURSIVE statement_texts(_, _, _)
statement_texts(self, start_index, n) ==
    IF n = 0 THEN <<>>
    ELSE LET index == n - 1
             before == statement_texts(self, start_index, n - 1)
             opened == IF is_empty(before) THEN <<<<"W", "H", "E", "R", "E">>>> ELSE before
             logic == self.logics[n]
             chained == CASE logic = "FirstCondition" -> opened
                          [] logic = "And" -> Append(opened, <<"A", "N", "D">>)
                          [] logic = "Or" -> Append(opened, <<"O", "R">>)
             condition_text == Condition_generate_statement_text(self.conditions[n])
         IN Append(chained,
                   condition_text \o SP \o <<"$">> \o to_string(index + start_index + 1))

Min(a, b) == IF a < b THEN a ELSE b

\* generate_statement_text that writes the value where the placeholder belongs
RECURSIVE statement_texts_inline(_, _, _)
statement_texts_inline(self, start_index, n) ==
    IF n = 0 THEN <<>>
    ELSE LET before == statement_texts_inline(self, start_index, n - 1)
             opened == IF is_empty(before) THEN <<<<"W", "H", "E", "R", "E">>>> ELSE before
             logic == self.logics[n]
             chained == CASE logic = "FirstCondition" -> opened
                          [] logic = "And" -> Append(opened, <<"A", "N", "D">>)
                          [] logic = "Or" -> Append(opened, <<"O", "R">>)
         IN Append(chained, Condition_generate_statement_text(self.conditions[n])
                            \o SP \o self.conditions[n].value)

Conditions_generate_statement_text_inline(self, start_index) ==
    join(statement_texts_inline(self, start_index,
                                Min(Len(self.conditions), Len(self.logics))), SP)

\* Conditions::generate_statement_text
Conditions_generate_statement_text(self, start_index) ==
    join(statement_texts(self, start_index,
                         Min(Len(self.conditions), Len(self.logics))), SP)

\* Conditions::get_flat_values
Conditions_get_flat_values(self) ==
    [i \in 1..Len(self.conditions) |-> self.conditions[i].value]

(***************************************************************************)
(* sql_base.rs: QueryColumns, UpdateSets, InsertRecords, SqlType.          *)
(***************************************************************************)
\* QueryColumns::new
QueryColumns_new(all_columns) == [all_columns |-> all_columns, columns |-> <<>>]

\* QueryColumns::add_column
add_column(self, schema_name, table_name, column) ==
    IF self.all_columns
    THEN [self |-> self, result |-> "InputInconsistentError"]
    ELSE IF validate_string(schema_name) # "Ok" THEN [self |-> self, result |-> "InputInvalidError"]
    ELSE IF validate_string(table_name) # "Ok" THEN [self |-> self, result |-> "InputInvalidError"]
    ELSE IF validate_string(column) # "Ok" THEN [self |-> self, result |-> "InputInvalidError"]
    ELSE [self |-> [self EXCEPT !.columns = Append(@,
                        [schema_name |-> schema_name, table_name |-> table_name,
                         column |-> column])],
          result |-> "Ok"]

\* The column_condition vector of one QueryColumn, joined by "."
query_column_text(query_column) ==
    join((IF ~is_empty(query_column.schema_name) THEN <<query_column.schema_name>> ELSE <<>>)
         \o (IF ~is_empty(query_column.table_name) THEN <<query_column.table_name>> ELSE <<>>)
         \o <<query_column.column>>, <<".">>)

\* SqlBuilder for QueryColumns
QueryColumns_build_sql(self, table_name) ==
    join(<<<<"S", "E", "L", "E", "C", "T">>,
           IF self.all_columns
           THEN <<"*">>
           ELSE join([i \in 1..Len(self.columns) |-> query_column_text(self.columns[i])],
                     <<",", " ">>),
           <<"F", "R", "O", "M", " ">> \o table_name>>, SP)

\* UpdateSets::new
UpdateSets_new == <<>>

\* UpdateSets::add_set
add_set(self, column, value) ==
    IF validate_string(column) # "Ok"
    THEN [self |-> self, result |-> "InputInvalidError"]
    ELSE [self |-> Append(self, [column |-> column, value |-> value]), result |-> "Ok"]

\* UpdateSets::get_flat_values
UpdateSets_get_flat_values(self) == [i \in 1..Len(self) |-> self[i].value]

\* UpdateSets::get_num_values
get_num_values(self) == Len(self)

\* SqlBuilder for UpdateSets (enumerate() counts from 0, so index here is index + 1 there)
UpdateSets_build_sql(self, table_name) ==
    join(<<<<"U", "P", "D", "A", "T", "E">>,
           table_name,
           <<"S", "E", "T", " ">>
           \o join([index \in 1..Len(self) |->
                        self[index].column \o <<" ", "=", " ", "$">> \o to_string(index)],
                   <<",", " ">>)>>, SP)

\* InsertRecords::new: the columns are stored as given
InsertRecords_new(columns) == [keys |-> columns, insert_records |-> <<>>]

\* add_record without the comparison of the record's length with the keys'
add_record_any_length(self, record) ==
    IF /\ is_empty(self.insert_records)
       /\ \E k \in 1..Len(self.keys) : validate_string(self.keys[k]) # "Ok"
    THEN [self |-> self, result |-> "InputInvalidError"]
    ELSE [self |-> [self EXCEPT !.insert_records = Append(@, [values |-> record])],
          result |-> "Ok"]

\* InsertRecords::add_record
add_record(self, record) ==
    IF /\ is_empty(self.insert_records)
       /\ \E k \in 1..Len(self.keys) : validate_string(self.keys[k]) # "Ok"
    THEN [self |-> self, result |-> "InputInvalidError"]
    ELSE IF Len(record) # Len(self.keys)
    THEN [self |-> self, result |-> "InputInconsistentError"]
    ELSE [self |-> [self EXCEPT !.insert_records = Append(@, [values |-> record])],
          result |-> "Ok"]

\* InsertRecords::get_flat_values
RECURSIVE flat_values(_)
flat_values(records) ==
    IF Len(records) = 0 THEN <<>>
    ELSE records[1].values \o flat_values(Tail(records))

InsertRecords_get_flat_values(self) == flat_values(self.insert_records)

\* One element of values_placeholder_vec
values_placeholder(placeholder_index, keys_len) ==
    CASE placeholder_index % keys_len = 0 -> <<"$">> \o to_string(placeholder_index) \o <<")">>
      [] placeholder_index % keys_len = 1 -> <<"(", "$">> \o to_string(placeholder_index)
      [] OTHER -> <<"$">> \o to_string(placeholder_index)

\* SqlBuilder for InsertRecords
InsertRecords_build_sql(self, table_name) ==
    LET number_elements == Len(self.keys) * Len(self.insert_records)
    IN join(<<<<"I", "N", "S", "E", "R", "T", " ", "I", "N", "T", "O">>,
              table_name,
              <<"(">> \o join(self.keys, <<",", " ">>)
              \o <<")", " ", "V", "A", "L", "U", "E", "S", " ">>
              \o join([placeholder_index \in 1..number_elements |->
                           values_placeholder(placeholder_index, Len(self.keys))],
                      <<",", " ">>)>>, SP)

\* SqlType::sql_build for SqlType::Delete
Delete_sql_build(table_name) ==
    <<"D", "E", "L", "E", "T", "E", " ", "F", "R", "O", "M", " ">> \o table_name

(***************************************************************************)
(* join_tables.rs                                                          *)
(***************************************************************************)
JoinTables_new == <<>>

\* JoinTables::validate_column_collection_pare
validate_column_collection_pare(join_columns, destination_columns) ==
    IF ~(\A i \in 1..Len(join_columns) : validate_alphanumeric_name(join_columns[i], <<"_">>))
    THEN "InputInvalidError"
    ELSE IF ~(\A i \in 1..Len(destination_columns) :
                  validate_alphanumeric_name(destination_columns[i], <<"_">>))
    THEN "InputInvalidError"
    ELSE IF Len(join_columns) # Len(destination_columns)
    THEN "InputInconsistentError"
    ELSE "Ok"

\* JoinTables::add_join_table
add_join_table(self, schema, table_name, join_columns, destination_columns) ==
    IF validate_string(table_name) # "Ok" THEN [self |-> self, result |-> "InputInvalidError"]
    ELSE IF validate_string(schema) # "Ok" THEN [self |-> self, result |-> "InputInvalidError"]
    ELSE IF validate_column_collection_pare(join_columns, destination_columns) # "Ok"
    THEN [self |-> self,
          result |-> validate_column_collection_pare(join_columns, destination_columns)]
    ELSE [self |-> Append(self, [schema |-> schema, table_name |-> table_name,
                                 join_columns |-> join_columns,
                                 destination_columns |-> destination_columns]),
          result |-> "Ok"]

\* JoinTables::is_tables_empty
is_tables_empty(self) == is_empty(self)

\* The ON terms of JoinTable::generate_statement_text after the first n column pairs
RECURSIVE join_on_terms(_, _, _, _)
join_on_terms(self, main_table, table_with_schema, n) ==
    IF n = 0 THEN <<>>
    ELSE join_on_terms(self, main_table, table_with_schema, n - 1)
         \o SP \o main_table \o <<".">> \o self.destination_columns[n]
         \o <<" ", "=", " ">> \o table_with_schema \o <<".">> \o self.join_columns[n]
         \o (IF n < Len(self.join_columns) THEN <<" ", "A", "N", "D">> ELSE <<>>)

\* JoinTable::generate_statement_text
JoinTable_generate_statement_text(self, main_table) ==
    LET table_with_schema ==
            IF is_empty(self.schema) THEN self.table_name
            ELSE self.schema \o <<".">> \o self.table_name
    IN <<"I", "N", "N", "E", "R", " ", "J", "O", "I", "N", " ">> \o table_with_schema
       \o <<" ", "O", "N">>
       \o join_on_terms(self, main_table, table_with_schema,
                        Min(Len(self.join_columns), Len(self.destination_columns)))

\* JoinTables::generate_statement_text
JoinTables_generate_statement_text(self, main_table) ==
    join([i \in 1..Len(self) |-> JoinTable_generate_statement_text(self[i], main_table)], SP)

(***************************************************************************)
(* converter.rs: str_to_param.  A Param is modelled by its variant and     *)
(* the text it was parsed from.                                            *)
(***************************************************************************)
AsciiDigits == {"0", "1", "2", "3", "4", "5", "6", "7", "8", "9"}

is_digits(t) == Len(t) >= 1 /\ \A i \in 1..Len(t) : t[i] \in AsciiDigits

RECURSIVE strip_zeros(_)
strip_zeros(t) ==
    IF Len(t) > 1 /\ t[1] = "0" THEN strip_zeros(Tail(t)) ELSE t

digit_value(c) == CHOOSE d \in 0..9 : DigitChars[d + 1] = c

\* a <= b for two digit texts of the same length
RECURSIVE digits_leq(_, _)
digits_leq(a, b) ==
    IF Len(a) = 0 THEN TRUE
    ELSE IF digit_value(a[1]) < digit_value(b[1]) THEN TRUE
    ELSE IF digit_value(a[1]) > digit_value(b[1]) THEN FALSE
    ELSE digits_leq(Tail(a), Tail(b))

\* the magnitude written by `digits` is at most the one written by `limit`
magnitude_leq(digits, limit) ==
    LET d == strip_zeros(digits)
    IN \/ Len(d) < Len(limit)
       \/ Len(d) = Len(limit) /\ digits_leq(d, limit)

\* <iN as FromStr>::from_str succeeds: an optional sign, at least one ASCII
\* digit, nothing else, and the value within [-(max + 1), max]
parses_as_int(t, max, min_magnitude) ==
    IF Len(t) >= 1 /\ t[1] = "-"
    THEN is_digits(Tail(t)) /\ magnitude_leq(Tail(t), min_magnitude)
    ELSE IF Len(t) >= 1 /\ t[1] = "+"
    THEN is_digits(Tail(t)) /\ magnitude_leq(Tail(t), max)
    ELSE is_digits(t) /\ magnitude_leq(t, max)

parses_as_i16(t) == parses_as_int(t, <<"3", "2", "7", "6", "7">>, <<"3", "2", "7", "6", "8">>)
parses_as_i32(t) ==
    parses_as_int(t, <<"2", "1", "4", "7", "4", "8", "3", "6", "4", "7">>,
                     <<"2", "1", "4", "7", "4", "8", "3", "6", "4", "8">>)
parses_as_i64(t) ==
    parses_as_int(t,
        <<"9", "2", "2", "3", "3", "7", "2", "0", "3", "6", "8", "5", "4", "7", "7", "5", "8", "0", "7">>,
        <<"9", "2", "2", "3", "3", "7", "2", "0", "3", "6", "8", "5", "4", "7", "7", "5", "8", "0", "8">>)

\* digits with at most one ".", and at least one digit
is_decimal_mantissa(t) ==
    /\ \A i \in 1..Len(t) : t[i] \in AsciiDigits \/ t[i] = "."
    /\ \E i \in 1..Len(t) : t[i] \in AsciiDigits
    /\ Cardinality({i \in 1..Len(t) : t[i] = "."}) <= 1

unsigned(t) == IF Len(t) >= 1 /\ t[1] \in {"+", "-"} THEN Tail(t) ELSE t

\* <f32 as FromStr>::from_str and <f64 as FromStr>::from_str succeed on the same
\* texts (a value too large for the type parses as infinity): a decimal
\* mantissa with an optional sign.  Exponents and the words inf, infinity and
\* nan are not written with the value alphabet of this model.
parses_as_float(t) == is_decimal_mantissa(unsigned(t))

\* <Decimal as FromStr>::from_str, within the precision of Decimal
parses_as_decimal(t) == is_decimal_mantissa(unsigned(t)) /\ Len(t) <= 28

\* <bool as FromStr>::from_str
parses_as_bool(t) == t \in {<<"t", "r", "u", "e">>, <<"f", "a", "l", "s", "e">>}

UNSUPPORTED_DATA_TYPE ==
    {<<"f", "1", "6">>, <<"i", "s", "i", "z", "e">>, <<"f", "s", "i", "z", "e">>,
     <<"u", "1", "6">>, <<"u", "3", "2">>, <<"u", "6", "4">>, <<"u", "s", "i", "z", "e">>}

\* data[..data.len() - 3]
without_tag(data) == SubSeq(data, 1, Len(data) - 3)

(***************************************************************************)
(* chrono's strftime parsing, as NaiveDate::parse_from_str,                *)
(* NaiveTime::parse_from_str and NaiveDateTime::parse_from_str apply it.   *)
(* A format is the sequence of its items: a specifier ("%Y") or one        *)
(* literal character.  An Option is a sequence of at most one element.     *)
(***************************************************************************)
\* the number written by a text of digits
RECURSIVE nat_value(_)
nat_value(digits) ==
    IF Len(digits) = 0 THEN 0
    ELSE 10 * nat_value(SubSeq(digits, 1, Len(digits) - 1)) + digit_value(digits[Len(digits)])
Some(x) == <<x>>

\* str::trim_start
RECURSIVE trim_start(_)
trim_start(s) ==
    IF Len(s) = 0 \/ s[1] # " " THEN s ELSE trim_start(Tail(s))

\* the number of ASCII digits of s from position i on, at most max
RECURSIVE digits_from(_, _, _)
digits_from(s, i, max) ==
    IF max = 0 \/ i > Len(s) \/ s[i] \notin AsciiDigits THEN 0
    ELSE 1 + digits_from(s, i + 1, max - 1)

\* the number of leading ASCII digits of s, at most max
digits_run(s, max) == digits_from(s, 1, max)

UpperLetters == <<"A", "B", "C", "D", "E", "F", "G", "H", "I", "J", "K", "L", "M", "N", "O", "P", "Q", "R", "S", "T", "U", "V", "W", "X", "Y", "Z">>
LowerLetters == <<"a", "b", "c", "d", "e", "f", "g", "h", "i", "j", "k", "l", "m", "n", "o", "p", "q", "r", "s", "t", "u", "v", "w", "x", "y", "z">>

\* u8::to_ascii_lowercase
to_ascii_lowercase(c) ==
    IF \E i \in 1..26 : UpperLetters[i] = c
    THEN LowerLetters[CHOOSE i \in 1..26 : UpperLetters[i] = c]
    ELSE c

lowercase(s) == [i \in 1..Len(s) |-> to_ascii_lowercase(s[i])]

MonthNames ==
    <<<<"j", "a", "n", "u", "a", "r", "y">>,
      <<"f", "e", "b", "r", "u", "a", "r", "y">>,
      <<"m", "a", "r", "c", "h">>,
      <<"a", "p", "r", "i", "l">>,
      <<"m", "a", "y">>,
      <<"j", "u", "n", "e">>,
      <<"j", "u", "l", "y">>,
      <<"a", "u", "g", "u", "s", "t">>,
      <<"s", "e", "p", "t", "e", "m", "b", "e", "r">>,
      <<"o", "c", "t", "o", "b", "e", "r">>,
      <<"n", "o", "v", "e", "m", "b", "e", "r">>,
      <<"d", "e", "c", "e", "m", "b", "e", "r">>>>

\* scan::short_month0: the month whose first three letters s starts with
short_month0(s) ==
    IF Len(s) >= 3 /\ \E m \in 1..12 : SubSeq(MonthNames[m], 1, 3) = lowercase(SubSeq(s, 1, 3))
    THEN Some(CHOOSE m \in 1..12 : SubSeq(MonthNames[m], 1, 3) = lowercase(SubSeq(s, 1, 3)))
    ELSE <<>>

\* the rest of short_or_long_month0, the short name of month `found` being read:
\* the long name is read when the text goes on with it
long_month_suffix(s, found, name) ==
    IF Len(s) >= Len(name) /\ lowercase(SubSeq(s, 4, Len(name))) = SubSeq(name, 4, Len(name))
    THEN Some([month |-> found, read |-> Len(name)])
    ELSE Some([month |-> found, read |-> 3])

\* the month and the number of characters read, `found` being what short_month0
\* returned
month_scanned(s, found, long) ==
    IF found = <<>> THEN <<>>
    ELSE IF long THEN long_month_suffix(s, found[1], MonthNames[found[1]])
    ELSE Some([month |-> found[1], read |-> 3])

\* scan::short_or_long_month0: the month and the number of characters read
short_or_long_month0(s) == month_scanned(s, short_month0(s), TRUE)

\* format::Parsed, with the text still to read
Parsed_new(data) ==
    [ok |-> TRUE, rest |-> data, year |-> <<>>, year_div_100 |-> <<>>,
     year_mod_100 |-> <<>>, month |-> <<>>, day |-> <<>>, hour_div_12 |-> <<>>,
     hour_mod_12 |-> <<>>, minute |-> <<>>, second |-> <<>>, nanosecond |-> <<>>,
     offset |-> <<>>]

Failed(p) == [p EXCEPT !.ok = FALSE]

\* the width of a numeric specifier
NumericWidth ==
    [spec \in {"%Y", "%C", "%y", "%m", "%d", "%e", "%H", "%k", "%I", "%l", "%M", "%S", "%f"} |->
        IF spec = "%Y" THEN 4 ELSE IF spec = "%f" THEN 9 ELSE 2]

\* Parsed::set_year, set_month, ..., with their range checks
set_numeric(p, spec, v, rest) ==
    LET q == [p EXCEPT !.rest = rest]
    IN IF spec = "%Y" THEN [q EXCEPT !.year = Some(v)]
       ELSE IF spec = "%C" THEN [q EXCEPT !.year_div_100 = Some(v)]
       ELSE IF spec = "%y" THEN [q EXCEPT !.year_mod_100 = Some(v)]
       ELSE IF spec = "%m" THEN IF v \in 1..12 THEN [q EXCEPT !.month = Some(v)] ELSE Failed(p)
       ELSE IF spec \in {"%d", "%e"}
       THEN IF v \in 1..31 THEN [q EXCEPT !.day = Some(v)] ELSE Failed(p)
       ELSE IF spec \in {"%H", "%k"}
       THEN IF v \in 0..23
            THEN [q EXCEPT !.hour_div_12 = Some(v \div 12), !.hour_mod_12 = Some(v % 12)]
            ELSE Failed(p)
       ELSE IF spec \in {"%I", "%l"}
       THEN IF v \in 1..12 THEN [q EXCEPT !.hour_mod_12 = Some(v % 12)] ELSE Failed(p)
       ELSE IF spec = "%M" THEN IF v \in 0..59 THEN [q EXCEPT !.minute = Some(v)] ELSE Failed(p)
       ELSE IF spec = "%S" THEN IF v \in 0..60 THEN [q EXCEPT !.second = Some(v)] ELSE Failed(p)
       ELSE [q EXCEPT !.nanosecond = Some(v)]

\* Item::Numeric: leading whitespace is skipped; a year may carry a sign and
\* then has as many digits as follow, otherwise at most `width` digits are read
number_read(p, spec, body, n, negative) ==
    IF n = 0 THEN Failed(p)
    ELSE set_numeric(p, spec,
                     IF negative THEN 0 - nat_value(SubSeq(body, 1, n))
                     ELSE nat_value(SubSeq(body, 1, n)),
                     SubSeq(body, n + 1, Len(body)))

number_scanned(p, spec, s) ==
    IF spec = "%Y" /\ Len(s) >= 1 /\ s[1] \in {"-", "+"}
    THEN number_read(p, spec, Tail(s), digits_run(Tail(s), Len(s) - 1), s[1] = "-")
    ELSE number_read(p, spec, s, digits_run(s, NumericWidth[spec]), FALSE)

parse_numeric(p, spec) == number_scanned(p, spec, trim_start(p.rest))

\* scan::timezone_offset: a sign, two digits of hours, an optional colon, two
\* digits of minutes below 60
offset_scanned(p, s, colon) ==
    IF /\ Len(s) >= 5 + colon
       /\ s[1] \in {"+", "-"}
       /\ digits_run(SubSeq(s, 2, 3), 2) = 2
       /\ digits_run(SubSeq(s, 4 + colon, 5 + colon), 2) = 2
       /\ nat_value(SubSeq(s, 4 + colon, 5 + colon)) < 60
    THEN [p EXCEPT !.rest = SubSeq(s, 6 + colon, Len(s)), !.offset = Some(SubSeq(s, 1, 5 + colon))]
    ELSE Failed(p)

colon_at(s, i) == IF Len(s) >= i /\ s[i] = ":" THEN 1 ELSE 0

parse_offset(p) == offset_scanned(p, trim_start(p.rest), colon_at(trim_start(p.rest), 4))

\* Parsed::set_month after a month name, or the failure to read one
set_month(p, found) ==
    IF found = <<>> THEN Failed(p)
    ELSE [p EXCEPT !.month = Some(found[1].month),
                   !.rest = SubSeq(p.rest, found[1].read + 1, Len(p.rest))]

\* one item of a format applied to what is left of the text
parse_item(p, item) ==
    IF item \in DOMAIN NumericWidth THEN parse_numeric(p, item)
    ELSE IF item = "%b" THEN set_month(p, month_scanned(p.rest, short_month0(p.rest), FALSE))
    ELSE IF item = "%B" THEN set_month(p, short_or_long_month0(p.rest))
    ELSE IF item \in {"%p", "%P"}
    THEN IF Len(p.rest) >= 2 /\ lowercase(SubSeq(p.rest, 1, 2)) \in {<<"a", "m">>, <<"p", "m">>}
         THEN [p EXCEPT !.hour_div_12 = Some(IF to_ascii_lowercase(p.rest[1]) = "p" THEN 1 ELSE 0),
                        !.rest = SubSeq(p.rest, 3, Len(p.rest))]
         ELSE Failed(p)
    ELSE IF item = "%Z"
    THEN \* scan::timezone_name_skip: everything up to the next whitespace
         LET n == CHOOSE k \in 0..Len(p.rest) :
                      /\ \A i \in 1..k : p.rest[i] # " "
                      /\ k = Len(p.rest) \/ p.rest[k + 1] = " "
         IN [p EXCEPT !.rest = SubSeq(p.rest, n + 1, Len(p.rest))]
    ELSE IF item \in {"%z", "%:z", "%::z", "%:::z"} THEN parse_offset(p)
    ELSE IF item = "%i" THEN Failed(p)   \* no such specifier: Item::Error
    ELSE IF item = " " THEN [p EXCEPT !.rest = trim_start(p.rest)]
    ELSE IF Len(p.rest) >= 1 /\ p.rest[1] = item THEN [p EXCEPT !.rest = Tail(p.rest)]
    ELSE Failed(p)

\* format::parse over the items of a format, from a Parsed read so far
RECURSIVE parse_items(_, _)
parse_items(p, format) ==
    IF ~p.ok \/ Len(format) = 0 THEN p
    ELSE parse_items(parse_item(p, format[1]), Tail(format))

is_leap_year(y) == y % 4 = 0 /\ (y % 100 # 0 \/ y % 400 = 0)

days_in_month(y, m) ==
    IF m = 2 THEN (IF is_leap_year(y) THEN 29 ELSE 28)
    ELSE IF m \in {4, 6, 9, 11} THEN 30 ELSE 31

\* resolve_year of Parsed::to_naive_date: Some(year) or nothing
resolve_year(p) ==
    IF p.year # <<>> THEN p.year
    ELSE IF p.year_div_100 # <<>> /\ p.year_mod_100 # <<>>
    THEN Some(p.year_div_100[1] * 100 + p.year_mod_100[1])
    ELSE IF p.year_div_100 = <<>> /\ p.year_mod_100 # <<>>
    THEN Some(p.year_mod_100[1] + (IF p.year_mod_100[1] < 70 THEN 2000 ELSE 1900))
    ELSE <<>>

\* NaiveDate::from_ymd_opt on the fields read, the year being resolved
from_ymd_opt(p, year) ==
    IF /\ year # <<>> /\ p.month # <<>> /\ p.day # <<>>
       /\ p.day[1] <= days_in_month(year[1], p.month[1])
    THEN Some([year |-> year[1], month |-> p.month[1], day |-> p.day[1]])
    ELSE <<>>

\* Parsed::to_naive_date: Some(date) or nothing
to_naive_date(p) == from_ymd_opt(p, resolve_year(p))

\* Parsed::to_naive_time: Some(time) or nothing
to_naive_time(p) ==
    IF /\ p.hour_div_12 # <<>> /\ p.hour_mod_12 # <<>> /\ p.minute # <<>>
       /\ p.nanosecond # <<>> => p.second # <<>>
    THEN Some([hour |-> p.hour_div_12[1] * 12 + p.hour_mod_12[1], minute |-> p.minute[1],
               second |-> IF p.second = <<>> THEN 0 ELSE p.second[1]])
    ELSE <<>>

\* the whole text was read
parsed_all(p) == p.ok /\ Len(p.rest) = 0

\* the date of a text read to its end
date_parsed(p) == IF parsed_all(p) THEN to_naive_date(p) ELSE <<>>

\* NaiveDate::parse_from_str
NaiveDate_parse_from_str(data, format) == date_parsed(parse_items(Parsed_new(data), format))

\* Display for NaiveDate, up to the year: four digits for the years 0 to 9999,
\* a sign and five digits otherwise
year_to_string(y) ==
    LET pad(t, w) == [i \in 1..(w - Min(w, Len(t))) |-> "0"] \o t
    IN IF y \in 0..9999 THEN pad(to_string(y), 4)
       ELSE IF y < 0 THEN <<"-">> \o pad(to_string(0 - y), 5)
       ELSE <<"+">> \o pad(to_string(y), 5)

(***************************************************************************)
(* format.rs: the accepted and the rejected patterns.  A pattern is the    *)
(* sequence of the items of its format string.                             *)
(***************************************************************************)
DATE_SEPARATORS == <<"-", "/">>
DATE_FORMATS ==
    <<<<"%Y", "%m", "%d">>, <<"%Y", "%b", "%d">>, <<"%Y", "%B", "%d">>,
      <<"%Y", "%m", "%e">>, <<"%Y", "%b", "%e">>, <<"%Y", "%B", "%e">>>>
TIME_FORMATS ==
    <<<<"%H", ":", "%M">>,
      <<"%k", ":", "%M">>,
      <<"%I", ":", "%M">>,
      <<"%l", ":", "%M">>,
      <<"%I", ":", "%M", " ", "%p">>,
      <<"%I", ":", "%M", " ", "%P">>,
      <<"%l", ":", "%M", " ", "%p">>,
      <<"%l", ":", "%M", " ", "%P">>,
      <<"%H", ":", "%M", ":", "%S">>,
      <<"%k", ":", "%M", ":", "%S">>,
      <<"%I", ":", "%M", ":", "%S">>,
      <<"%i", ":", "%M", ":", "%S">>,
      <<"%H", ":", "%M", ":", "%S", ".", "%f">>,
      <<"%k", ":", "%M", ":", "%S", ".", "%f">>,
      <<"%I", ":", "%M", ":", "%S", " ", "%p">>,
      <<"%I", ":", "%M", ":", "%S", " ", "%P">>,
      <<"%i", ":", "%M", ":", "%S", " ", "%p">>,
      <<"%i", ":", "%M", ":", "%S", " ", "%P">>>>
SPECIAL_DATE_FORMATS ==
    <<<<"%B", " ", "%e", ",", " ", "%Y">>,
      <<"%B", " ", "%d", ",", " ", "%Y">>,
      <<"%b", " ", "%e", ",", " ", "%Y">>,
      <<"%b", " ", "%d", ",", " ", "%Y">>,
      <<"%B", " ", "%e", ",", " ", "%y">>,
      <<"%B", " ", "%d", ",", " ", "%y">>,
      <<"%b", " ", "%e", ",", " ", "%y">>,
      <<"%b", " ", "%d", ",", " ", "%y">>>>
UNSUPPORTED_DATE_FORMATS ==
    <<<<"%y", "%m", "%d">>, <<"%y", "%b", "%d">>, <<"%y", "%B", "%d">>,
      <<"%y", "%m", "%e">>, <<"%y", "%b", "%e">>, <<"%y", "%B", "%e">>,
      <<"%C", "%m", "%d">>, <<"%C", "%b", "%d">>, <<"%C", "%B", "%d">>,
      <<"%C", "%m", "%e">>, <<"%C", "%b", "%e">>, <<"%C", "%B", "%e">>>>
TIMEZONE_SPEC == <<"%Z", "%z", "%:z", "%::z", "%:::z">>

\* Itertools::permutations(3) of a list of three, in the order it yields them
permutations(l) ==
    <<<<l[1], l[2], l[3]>>, <<l[1], l[3], l[2]>>, <<l[2], l[1], l[3]>>,
      <<l[2], l[3], l[1]>>, <<l[3], l[1], l[2]>>, <<l[3], l[2], l[1]>>>>

\* date_format_generator: for each format list, each permutation with each
\* separator, then the special formats
date_format_generator(formats, special_formats, separators) ==
    LET per_list == 6 * Len(separators)
    IN [k \in 1..(Len(formats) * per_list) |->
           LET format == permutations(formats[((k - 1) \div per_list) + 1])
                             [(((k - 1) % per_list) \div Len(separators)) + 1]
               sep == separators[((k - 1) % Len(separators)) + 1]
           IN <<format[1], sep, format[2], sep, format[3]>>]
       \o special_formats

support_date_formats == date_format_generator(DATE_FORMATS, SPECIAL_DATE_FORMATS, DATE_SEPARATORS)

unsupported_date_formats == date_format_generator(UNSUPPORTED_DATE_FORMATS, <<>>, DATE_SEPARATORS)

support_time_formats == TIME_FORMATS

\* every time format followed by every timezone specifier, without and with a
\* space between them
unsupported_time_formats ==
    [k \in 1..(Len(TIME_FORMATS) * Len(TIMEZONE_SPEC) * 2) |->
        LET time_format == TIME_FORMATS[((k - 1) \div (Len(TIMEZONE_SPEC) * 2)) + 1]
            timezone_format == TIMEZONE_SPEC[(((k - 1) % (Len(TIMEZONE_SPEC) * 2)) \div 2) + 1]
        IN IF (k - 1) % 2 = 0
           THEN time_format \o <<timezone_format>>
           ELSE time_format \o <<" ", timezone_format>>]

\* The four lists of timestamp formats are cartesian products of a list of
\* date formats and a list of time formats, each pair joined by " " and
\* then by "T": the format at index <<d, t, j>> of the product
DateTimeJoints == <<" ", "T">>
datetime_format(dates, times, index) ==
    dates[index[1]] \o <<DateTimeJoints[index[3]]>> \o times[index[2]]

\* index a comes before index b in the product's order
index_before(a, b) ==
    \/ a[1] < b[1]
    \/ a[1] = b[1] /\ a[2] < b[2]
    \/ a[1] = b[1] /\ a[2] = b[2] /\ a[3] <= b[3]

(***************************************************************************)
(* converter.rs: the temporal parsers.  Each returns [ok, error, value].   *)
(***************************************************************************)
Parsed_ok(value) == [ok |-> TRUE, error |-> "none", value |-> value]
Parsed_err(error, message) == [ok |-> FALSE, error |-> error, value |-> message]

\* date_chars[..2] == ['0', '0']
starts_with_00(date) == SubSeq(year_to_string(date.year), 1, 2) = <<"0", "0">>

\* A format reads something of a text only if its first item does: the first
\* items of a list of formats that read something of the text, and the
\* indexes of the formats that start with one of them.  The parsers below try
\* these formats only; the others fail on their first item.
starting_items(data, formats) ==
    {item \in {formats[i][1] : i \in 1..Len(formats)} : parse_item(Parsed_new(data), item).ok}

started_by(formats, items) == {i \in 1..Len(formats) : formats[i][1] \in items}

candidates(data, formats) == started_by(formats, starting_items(data, formats))

\* the formats of a list that read the text as a date, each with its index in
\* the list and the date it reads
date_readings(data, formats) ==
    {r \in {<<i, NaiveDate_parse_from_str(data, formats[i])>> : i \in candidates(data, formats)} :
        r[2] # <<>>}

\* the first of the readings in the order of their list
first_reading(readings) == CHOOSE r \in readings : \A q \in readings : r[1] <= q[1]

\* the result of parse_naive_date, given the readings of the accepted formats
\* it does not skip and those of the rejected formats
naive_date_from(supported, unsupported) ==
    IF supported # {} THEN Parsed_ok(first_reading(supported)[2][1])
    ELSE IF unsupported # {}
    THEN Parsed_err("ParseUnsupportedError",
             [format |-> unsupported_date_formats[first_reading(unsupported)[1]],
              rendering |-> first_reading(unsupported)[2][1]])
    ELSE Parsed_err("ParseDateTimeError", <<>>)

\* parse_naive_date
parse_naive_date(data) ==
    naive_date_from({r \in date_readings(data, support_date_formats) : ~starts_with_00(r[2][1])},
                    date_readings(data, unsupported_date_formats))

\* the time of a text read to its end
time_parsed(p) == IF parsed_all(p) THEN to_naive_time(p) ELSE <<>>

\* NaiveTime::parse_from_str
NaiveTime_parse_from_str(data, format) == time_parsed(parse_items(Parsed_new(data), format))

\* the formats of a list that read the text as a time, each with its index in
\* the list and the time it reads
time_readings(data, formats) ==
    {r \in {<<i, NaiveTime_parse_from_str(data, formats[i])>> : i \in candidates(data, formats)} :
        r[2] # <<>>}

\* the time formats that read a prefix of the text
time_prefixes(data) ==
    {i \in candidates(data, TIME_FORMATS) : parse_items(Parsed_new(data), TIME_FORMATS[i]).ok}

\* the formats with a timezone that read the text as a time: such a format
\* reads the text only if its time format reads a prefix
zoned_time_readings(data, prefixes) ==
    {k \in 1..Len(unsupported_time_formats) :
        /\ ((k - 1) \div (Len(TIMEZONE_SPEC) * 2)) + 1 \in prefixes
        /\ NaiveTime_parse_from_str(data, unsupported_time_formats[k]) # <<>>}

\* the result of parse_naive_time, given the readings of the accepted and of
\* the rejected formats
naive_time_from(supported, unsupported) ==
    IF supported # {} THEN Parsed_ok(first_reading(supported)[2][1])
    ELSE IF unsupported # {} THEN Parsed_err("ParseUnsupportedError", <<>>)
    ELSE Parsed_err("ParseDateTimeError", <<>>)

\* parse_naive_time
parse_naive_time(data) ==
    naive_time_from(time_readings(data, support_time_formats),
                    zoned_time_readings(data, time_prefixes(data)))

\* the text was read to its end and gives a date and a time
timestamp_parsed(p) == parsed_all(p) /\ to_naive_date(p) # <<>> /\ to_naive_time(p) # <<>>

\* Parsed::to_naive_datetime_with_offset: Some(timestamp) or nothing
to_naive_datetime(p) ==
    IF timestamp_parsed(p)
    THEN Some([date |-> to_naive_date(p)[1], time |-> to_naive_time(p)[1]])
    ELSE <<>>

\* NaiveDateTime::parse_from_str
NaiveDateTime_parse_from_str(data, format) ==
    to_naive_datetime(parse_items(Parsed_new(data), format))

\* the date formats that, followed by a joint, read a prefix of the text that
\* gives a date: <<date format, joint, what was read>>
dated_prefixes(data, dates) ==
    {a \in {<<d, j, parse_items(Parsed_new(data), dates[d] \o <<DateTimeJoints[j]>>)>> :
               d \in candidates(data, dates), j \in 1..2} :
        a[3].ok /\ to_naive_date(a[3]) # <<>>}

\* for each text left by a dated prefix, the time formats that read it
timed_rests(dated, times) ==
    {<<rest, {t \in candidates(rest, times) : NaiveTime_parse_from_str(rest, times[t]) # <<>>}>> :
        rest \in {a[3].rest : a \in dated}}

\* the indexes <<d, t, j>> put together from the dated prefixes and the times
\* that read what they leave
joined_matches(dated, timed) ==
    UNION {UNION {{<<a[1], t, a[2]>> : t \in rt[2]} : rt \in {x \in timed : x[1] = a[3].rest}} :
              a \in dated}

dated_matches(dated, times) == joined_matches(dated, timed_rests(dated, times))

\* The indexes of the formats of a product list that parse the text.  The
\* items of a date format set the fields of the date and those of a time
\* format the fields of the time, so the format at <<d, t, j>> parses the text
\* exactly if the date format d and the joint j read a prefix that gives a
\* date, and the time format t reads all that is left and gives a time.
datetime_matches(data, dates, times) == dated_matches(dated_prefixes(data, dates), times)

first_index(set) == CHOOSE a \in set : \A b \in set : index_before(a, b)

\* the message of the error for a rejected format that parses the text
unsupported_rendering(data, format) ==
    [format |-> format, rendering |-> NaiveDateTime_parse_from_str(data, format)[1]]

\* the result of parse_naive_datetime, given the indexes of the formats that
\* parse the text in each of the four lists
naive_datetime_from(data, supported, ambiguous_and_timezone, ambiguous, time_with_timezone) ==
    IF supported # {}
    THEN Parsed_ok(NaiveDateTime_parse_from_str(data,
             datetime_format(support_date_formats, support_time_formats,
                             first_index(supported)))[1])
    ELSE IF ambiguous_and_timezone # {}
    THEN Parsed_err("ParseUnsupportedError",
             unsupported_rendering(data,
                 datetime_format(unsupported_date_formats, unsupported_time_formats,
                                 first_index(ambiguous_and_timezone))))
    ELSE IF ambiguous # {}
    THEN Parsed_err("ParseUnsupportedError",
             unsupported_rendering(data,
                 datetime_format(unsupported_date_formats, support_time_formats,
                                 first_index(ambiguous))))
    ELSE IF time_with_timezone # {}
    THEN Parsed_err("ParseUnsupportedError", <<>>)
    ELSE Parsed_err("ParseDateTimeError", <<>>)

\* parse_naive_datetime
parse_naive_datetime(data) ==
    naive_datetime_from(data,
        {index \in datetime_matches(data, support_date_formats, support_time_formats) :
            ~starts_with_00(NaiveDateTime_parse_from_str(data,
                datetime_format(support_date_formats, support_time_formats, index))[1].date)},
        datetime_matches(data, unsupported_date_formats, unsupported_time_formats),
        datetime_matches(data, unsupported_date_formats, support_time_formats),
        datetime_matches(data, support_date_formats, unsupported_time_formats))

\* the fraction of a second that may follow the seconds
rfc3339_fraction(p) ==
    IF p.ok /\ Len(p.rest) >= 1 /\ p.rest[1] = "." THEN parse_items(p, <<".", "%f">>) ELSE p

\* the end of an RFC 3339 timestamp: "Z" or an offset with a colon
rfc3339_zone(p) ==
    /\ p.ok
    /\ to_naive_date(p) # <<>> /\ to_naive_time(p) # <<>>
    /\ \/ p.rest \in {<<"Z">>, <<"z">>}
       \/ /\ Len(p.rest) = 6 /\ p.rest[4] = ":"
          /\ parsed_all(parse_offset(p))

\* DateTime::parse_from_rfc3339: a four-digit year, two-digit month, day,
\* hour, minute and second, an optional fraction, and "Z" or an offset
parses_as_rfc3339(data) ==
    /\ Len(data) >= 20
    /\ \A i \in {1, 2, 3, 4, 6, 7, 9, 10, 12, 13, 15, 16, 18, 19} : data[i] \in AsciiDigits
    /\ rfc3339_zone(rfc3339_fraction(parse_items(Parsed_new(data),
           <<"%Y", "-", "%m", "-", "%d", "T", "%H", ":", "%M", ":", "%S">>)))

\* DateTime::parse_from_rfc2822, for a text without the day of the week and
\* with a numeric zone: day, month name, year, time and offset
parses_as_rfc2822(data) ==
    \E format \in {<<"%d", " ", "%b", " ", "%Y", " ", "%H", ":", "%M", ":", "%S", " ", "%z">>,
                   <<"%d", " ", "%b", " ", "%Y", " ", "%H", ":", "%M", " ", "%z">>} :
        timestamp_parsed(parse_items(Parsed_new(data), format))

\* the text was read to its end and gives a date, a time and an offset
zoned_timestamp_parsed(p) == timestamp_parsed(p) /\ p.offset # <<>>

\* parse_datetime_with_zones
parse_datetime_with_zones(data) ==
    \/ parses_as_rfc3339(data)
    \/ parses_as_rfc2822(data)
    \/ zoned_timestamp_parsed(parse_items(Parsed_new(data),
           <<"%Y", "-", "%m", "-", "%d", " ", "%H", ":", "%M", ":", "%S", " ", "%z">>))

\* Display of the integer written by t: no "+", no leading zeros, no "-0"
int_display(t) ==
    LET d == strip_zeros(unsigned(t))
    IN IF t[1] = "-" /\ d # <<"0">> THEN <<"-">> \o d ELSE d

\* A Param: its variant, the text it was inferred from and the value it holds
\* (an integer by its Display; Float, Double and Decimal by the text parsed).
Param(variant, data, value) == [ok |-> TRUE, variant |-> variant, text |-> data, value |-> value]
\* A DataParseError: its variant and what its message names
ParseErr(error, message) == [ok |-> FALSE, variant |-> error, text |-> <<>>, value |-> message]

\* The arms ahead of the temporal formats, with an i16 arm that makes no
\* second attempt as i64
str_to_param_numeric_no_wider_attempt(data) ==
    IF ends_with(data, <<"i", "1", "6">>)
    THEN IF parses_as_i16(without_tag(data))
         THEN Param("SmallInt", data, int_display(without_tag(data)))
         ELSE Param("Text", data, data)
    ELSE IF ends_with(data, <<"i", "6", "4">>)
    THEN IF parses_as_i64(without_tag(data))
         THEN Param("BigInt", data, int_display(without_tag(data)))
         ELSE Param("Text", data, data)
    ELSE IF ends_with(data, <<"f", "6", "4">>)
    THEN IF parses_as_float(without_tag(data))
         THEN Param("Double", data, without_tag(data))
         ELSE Param("Text", data, data)
    ELSE IF ends_with(data, <<"d", "e", "c">>)
    THEN IF parses_as_decimal(without_tag(data))
         THEN Param("Decimal", data, without_tag(data))
         ELSE Param("Text", data, data)
    ELSE IF parses_as_i32(data) THEN Param("Int", data, int_display(data))
    ELSE IF parses_as_float(data) THEN Param("Float", data, data)
    ELSE IF parses_as_bool(data) THEN Param("Bool", data, data)
    ELSE IF parses_as_float(data) THEN ParseErr("ParseFloatError", <<"f", "3", "2">>)
    ELSE IF parses_as_i64(data) THEN ParseErr("ParseIntError", <<"i", "3", "2">>)
    ELSE [ok |-> FALSE, variant |-> "none", text |-> <<>>, value |-> <<>>]

\* The arms of str_to_param ahead of the temporal formats; "none" when none
\* of them decides.
str_to_param_numeric(data) ==
    IF ends_with(data, <<"i", "1", "6">>)
    THEN IF parses_as_i16(without_tag(data))
         THEN Param("SmallInt", data, int_display(without_tag(data)))
         ELSE IF parses_as_i64(without_tag(data))
         THEN ParseErr("ParseIntError", <<"i", "1", "6">>)
         ELSE Param("Text", data, data)
    ELSE IF ends_with(data, <<"i", "6", "4">>)
    THEN IF parses_as_i64(without_tag(data))
         THEN Param("BigInt", data, int_display(without_tag(data)))
         ELSE Param("Text", data, data)
    ELSE IF ends_with(data, <<"f", "6", "4">>)
    THEN IF parses_as_float(without_tag(data))
         THEN Param("Double", data, without_tag(data))
         ELSE Param("Text", data, data)
    ELSE IF ends_with(data, <<"d", "e", "c">>)
    THEN IF parses_as_decimal(without_tag(data))
         THEN Param("Decimal", data, without_tag(data))
         ELSE Param("Text", data, data)
    ELSE IF parses_as_i32(data) THEN Param("Int", data, int_display(data))
    ELSE IF parses_as_float(data) THEN Param("Float", data, data)
    ELSE IF parses_as_bool(data) THEN Param("Bool", data, data)
    ELSE IF parses_as_float(data) THEN ParseErr("ParseFloatError", <<"f", "3", "2">>)
    ELSE IF parses_as_i64(data) THEN ParseErr("ParseIntError", <<"i", "3", "2">>)
    ELSE [ok |-> FALSE, variant |-> "none", text |-> <<>>, value |-> <<>>]

\* The arms of str_to_param from the temporal formats on, given what the
\* arms ahead of them and the temporal parsers return
str_to_param_from(data, numeric, zoned, date, time, datetime) ==
    IF numeric.variant # "none" THEN numeric
    ELSE IF zoned THEN ParseErr("ParseDateTimeError", <<>>)
    ELSE IF \E data_type \in UNSUPPORTED_DATA_TYPE : ends_with(data, data_type)
    THEN ParseErr("ParseUnsupportedError", SubSeq(data, Len(data) - 2, Len(data)))
    ELSE IF date.ok THEN Param("Date", data, date.value)
    ELSE IF date.error = "ParseUnsupportedError" THEN ParseErr("ParseUnsupportedError", date.value)
    ELSE IF time.ok THEN Param("Time", data, time.value)
    ELSE IF time.error = "ParseUnsupportedError" THEN ParseErr("ParseUnsupportedError", time.value)
    ELSE IF datetime.ok THEN Param("DateTime", data, datetime.value)
    ELSE IF datetime.error = "ParseUnsupportedError"
    THEN ParseErr("ParseUnsupportedError", datetime.value)
    ELSE Param("Text", data, data)

\* str_to_param
str_to_param(data) ==
    str_to_param_from(data, str_to_param_numeric(data), parse_datetime_with_zones(data),
                      parse_naive_date(data), parse_naive_time(data), parse_naive_datetime(data))

(***************************************************************************)
(* sql_base.rs: the display texts of UpdateSets and InsertRecords.         *)
(***************************************************************************)
\* str::replace: every non-overlapping match of `from`, left to right
RECURSIVE str_replace(_, _, _)
str_replace(text, from, to) ==
    IF Len(text) < Len(from) THEN text
    ELSE IF SubSeq(text, 1, Len(from)) = from
    THEN to \o str_replace(SubSeq(text, Len(from) + 1, Len(text)), from, to)
    ELSE <<text[1]>> \o str_replace(Tail(text), from, to)

\* the loop of get_update_text and get_insert_text over the first n values
RECURSIVE replace_placeholders(_, _, _)
replace_placeholders(text, values, n) ==
    IF n = 0 THEN text
    ELSE str_replace(replace_placeholders(text, values, n - 1),
                     <<"$">> \o to_string(n), values[n])

MainTableName == <<"m", "a", "i", "n", "_", "t", "a", "b", "l", "e", "_", "n", "a", "m", "e">>

\* UpdateSets::get_update_text
get_update_text(self) ==
    replace_placeholders(UpdateSets_build_sql(self, MainTableName),
                         UpdateSets_get_flat_values(self), Len(UpdateSets_get_flat_values(self)))

\* InsertRecords::get_insert_text
get_insert_text(self) ==
    replace_placeholders(InsertRecords_build_sql(self, MainTableName),
                         InsertRecords_get_flat_values(self),
                         Len(InsertRecords_get_flat_values(self)))

(***************************************************************************)
(* generate_params.rs                                                      *)
(***************************************************************************)
\* the `?` on each str_to_param of box_param_generator
first_error_or_all(inferred) ==
    IF \E i \in 1..Len(inferred) : ~inferred[i].ok
    THEN [ok |-> FALSE, params |-> <<>>]
    ELSE [ok |-> TRUE, params |-> inferred]

\* box_param_generator: the boxed parameters, or the first inference error
box_param_generator(str_params) ==
    first_error_or_all([i \in 1..Len(str_params) |-> str_to_param(str_params[i])])

(***************************************************************************)
(* postgres.rs: PostgresBase.                                              *)
(***************************************************************************)
Unset == [set |-> FALSE, value |-> <<>>]
EnvValue(v) == [set |-> TRUE, value |-> v]

\* PostgresBase::new with DB_USER, DB_PASSWORD and DB_HOST defined; db_schema
\* is the DB_SCHEMA environment variable.
PostgresBase_new(table_name, db_schema) ==
    IF ~validate_alphanumeric_name(table_name, <<"_">>)
    THEN [ok |-> FALSE, result |-> "InputInvalidError"]
    ELSE IF db_schema.set /\ validate_alphanumeric_name(db_schema.value, <<"_">>)
    THEN [ok |-> TRUE, result |-> "Ok",
          table_name |-> db_schema.value \o <<".">> \o table_name,
          schema_name |-> db_schema.value, client |-> "None"]
    ELSE [ok |-> TRUE, result |-> "Ok", table_name |-> table_name,
          schema_name |-> <<>>, client |-> "None"]

\* The record of one API call.  built: a statement text was assembled and
\* passed on with the texts `params`; prepared: client.prepare was invoked with
\* `statement`; executed: client.execute or client.query was invoked with the
\* parameters `bound`; input: the argument of an append.
Call(op, result) ==
    [op |-> op, result |-> result, detail |-> "none", chain |-> "none", input |-> <<>>,
     built |-> FALSE, statement |-> <<>>, params |-> <<>>,
     prepared |-> FALSE, executed |-> FALSE, bound |-> <<>>]

\* execute_core that boxes the parameters before it looks for the client
execute_boxed_client_last(self, call, boxed, prepare_ok, run_ok) ==
    IF ~boxed.ok
    THEN [call EXCEPT !.result = "SQLExecutionError"]
    ELSE IF self.client = "None"
    THEN [call EXCEPT !.result = "ConnectionNotFoundError"]
    ELSE IF ~prepare_ok
    THEN [call EXCEPT !.result = "TokioPostgresError", !.prepared = TRUE]
    ELSE [call EXCEPT !.result = IF run_ok THEN "Ok" ELSE "SQLExecutionError",
                      !.prepared = TRUE, !.executed = TRUE, !.bound = boxed.params]

\* execute_core that prepares the statement before it boxes the parameters
execute_boxed_prepared_first(self, call, boxed, prepare_ok, run_ok) ==
    IF self.client = "None"
    THEN [call EXCEPT !.result = "ConnectionNotFoundError"]
    ELSE IF ~prepare_ok
    THEN [call EXCEPT !.result = "TokioPostgresError", !.prepared = TRUE]
    ELSE IF ~boxed.ok
    THEN [call EXCEPT !.result = "SQLExecutionError", !.prepared = TRUE]
    ELSE [call EXCEPT !.result = IF run_ok THEN "Ok" ELSE "SQLExecutionError",
                      !.prepared = TRUE, !.executed = TRUE, !.bound = boxed.params]

\* execute_core on the record `call` of the statement built, `boxed` being what
\* box_param_generator returns once a client is there
execute_boxed(self, call, boxed, prepare_ok, run_ok) ==
    IF self.client = "None"
    THEN [call EXCEPT !.result = "ConnectionNotFoundError"]
    ELSE IF ~boxed.ok
    THEN [call EXCEPT !.result = "SQLExecutionError"]
    ELSE IF ~prepare_ok
    THEN [call EXCEPT !.result = "TokioPostgresError", !.prepared = TRUE]
    ELSE [call EXCEPT !.result = IF run_ok THEN "Ok" ELSE "SQLExecutionError",
                      !.prepared = TRUE, !.executed = TRUE, !.bound = boxed.params]

\* PostgresBase::execute_core (and its wrappers query / execute, which pass the
\* result through).  prepare_ok and run_ok are the driver's answers.
execute_core(self, op, statement_str, params, prepare_ok, run_ok) ==
    execute_boxed(self, [Call(op, "Ok") EXCEPT !.built = TRUE, !.statement = statement_str,
                                               !.params = params],
                  box_param_generator(params), prepare_ok, run_ok)

\* PostgresBase::query_inner_join_conditions
query_inner_join_conditions(self, columns, tables, conds, prepare_ok, run_ok) ==
    LET query_statement == QueryColumns_build_sql(columns, self.table_name)
        statement_vec ==
            <<query_statement>>
            \o (IF ~is_tables_empty(tables)
                THEN <<JoinTables_generate_statement_text(tables, self.table_name)>>
                ELSE <<>>)
            \o (IF ~Conditions_is_empty(conds)
                THEN <<Conditions_generate_statement_text(conds, 0)>>
                ELSE <<>>)
        params_values == Conditions_get_flat_values(conds)
    IN execute_core(self, "query", join(statement_vec, SP), params_values, prepare_ok, run_ok)

\* json_parser::row_to_json on the rows a query returned (query_result is
\* their number): the column names are read from query_result[0], which
\* panics on an empty Vec
row_to_json(query_result) ==
    IF query_result = 0 THEN "panicked" ELSE "Ok"

\* the rest of query_inner_join_conditions_json once the query has returned
json_of(queried, query_result) ==
    IF queried.result # "Ok" THEN queried
    ELSE [queried EXCEPT !.result = row_to_json(query_result),
                         !.detail = IF query_result = 0 THEN "index_out_of_bounds" ELSE "none"]

\* PostgresBase::query_inner_join_conditions_json; query_result is the number
\* of rows the driver returns when the query runs
query_inner_join_conditions_json(self, columns, tables, conds, prepare_ok, run_ok, query_result) ==
    json_of(query_inner_join_conditions(self, columns, tables, conds, prepare_ok, run_ok),
            query_result)

\* PostgresBase::query_condition_json
query_condition_json(self, columns, conds, prepare_ok, run_ok, query_result) ==
    query_inner_join_conditions_json(self, columns, JoinTables_new, conds,
                                     prepare_ok, run_ok, query_result)

\* PostgresBase::query_json
query_json(self, columns, prepare_ok, run_ok, query_result) ==
    query_inner_join_conditions_json(self, columns, JoinTables_new, Conditions_new,
                                     prepare_ok, run_ok, query_result)

\* PostgresBase::insert
insert(self, records, prepare_ok, run_ok) ==
    execute_core(self, "insert", InsertRecords_build_sql(records, self.table_name),
                 InsertRecords_get_flat_values(records), prepare_ok, run_ok)

\* update_condition that numbers the WHERE placeholders from 1
update_condition_restart(self, update_set, conds, prepare_ok, run_ok) ==
    LET params_values == UpdateSets_get_flat_values(update_set) \o Conditions_get_flat_values(conds)
        statement_vec ==
            <<UpdateSets_build_sql(update_set, self.table_name)>>
            \o (IF ~Conditions_is_empty(conds)
                THEN <<Conditions_generate_statement_text(conds, 0)>>
                ELSE <<>>)
    IN execute_core(self, "update_condition", join(statement_vec, SP), params_values,
                    prepare_ok, run_ok)

\* PostgresBase::update_condition
update_condition(self, update_set, conds, prepare_ok, run_ok) ==
    LET set_num == get_num_values(update_set)
        params_values == UpdateSets_get_flat_values(update_set) \o Conditions_get_flat_values(conds)
        statement_vec ==
            <<UpdateSets_build_sql(update_set, self.table_name)>>
            \o (IF ~Conditions_is_empty(conds)
                THEN <<Conditions_generate_statement_text(conds, set_num)>>
                ELSE <<>>)
    IN execute_core(self, "update_condition", join(statement_vec, SP), params_values,
                    prepare_ok, run_ok)

\* PostgresBase::update
update(self, update_set, allow_all_update, prepare_ok, run_ok) ==
    IF allow_all_update
    THEN [update_condition(self, update_set, Conditions_new, prepare_ok, run_ok)
            EXCEPT !.op = "update", !.detail = "allow_all_update=true"]
    ELSE [Call("update", "UnsafeExecutionError") EXCEPT !.detail = "allow_all_update=false"]

\* delete without the refusal of an empty Conditions
delete_unguarded(self, conds, prepare_ok, run_ok) ==
    execute_core(self, "delete",
                 join(<<Delete_sql_build(self.table_name),
                        Conditions_generate_statement_text(conds, 0)>>, SP),
                 Conditions_get_flat_values(conds), prepare_ok, run_ok)

\* PostgresBase::delete
delete(self, conds, prepare_ok, run_ok) ==
    IF Conditions_is_empty(conds)
    THEN Call("delete", "UnsafeExecutionError")
    ELSE execute_core(self, "delete",
                      join(<<Delete_sql_build(self.table_name),
                             Conditions_generate_statement_text(conds, 0)>>, SP),
                      Conditions_get_flat_values(conds), prepare_ok, run_ok)

\* PostgresBase::set_schema
set_schema(self, schema_name) ==
    IF ~validate_alphanumeric_name(schema_name, <<"_">>)
    THEN self
    ELSE LET dot == CHOOSE i \in 1..(Len(self.table_name) + 1) :
                        /\ i <= Len(self.table_name) => self.table_name[i] = "."
                        /\ \A k \in 1..(i - 1) : self.table_name[k] # "."
             \* origin_table_param[1]: the text between the first "." and the next one
             rest == SubSeq(self.table_name, dot + 1, Len(self.table_name))
             stop == CHOOSE i \in 1..(Len(rest) + 1) :
                        /\ i <= Len(rest) => rest[i] = "."
                        /\ \A k \in 1..(i - 1) : rest[k] # "."
             table_name == IF contains(self.table_name, ".")
                           THEN SubSeq(rest, 1, stop - 1)
                           ELSE self.table_name
         IN [self EXCEPT !.table_name = IF is_empty(schema_name) THEN table_name
                                        ELSE schema_name \o <<".">> \o table_name,
                         !.schema_name = schema_name]

(***************************************************************************)
(* lib.rs and generator/: Table, Column, Aggregation, the chains of WHERE  *)
(* and HAVING predicates, and QueryGenerator.  A Table that is a sub-query *)
(* holds its QueryGenerator in the one-element sequence `query`.  The      *)
(* model covers join tables that join on TRUE and select all their         *)
(* columns, which bind no value, and reference values that are Variables.  *)
(***************************************************************************)
RECURSIVE QueryGenerator_get_statement(_)
RECURSIVE QueryGenerator_get_params(_)

\* Table::create_table(None, table_name)
NonSchema(table_name) == [kind |-> "NonSchema", table_name |-> table_name, query |-> <<>>]

\* Table::create_sub_query_table
SubQueryAsTable(query) == [kind |-> "SubQueryAsTable", table_name |-> <<>>, query |-> <<query>>]

\* Table::get_table_name
Table_get_table_name(self) ==
    IF self.kind = "SubQueryAsTable"
    THEN <<"s", "u", "b", "_", "q", "u", "e", "r", "y">>
    ELSE self.table_name

\* Table::get_parameters
Table_get_parameters(self) ==
    IF self.kind = "SubQueryAsTable" THEN QueryGenerator_get_params(self.query[1]) ELSE <<>>

\* Display for Table
Table_fmt(self) ==
    IF self.kind = "SubQueryAsTable"
    THEN <<"(">> \o QueryGenerator_get_statement(self.query[1])
         \o <<")", " ", "A", "S", " ", "s", "u", "b", "_", "q", "u", "e", "r", "y">>
    ELSE self.table_name

\* Column::create_column(None, table_name, column_name)
create_column(table_name, column_name) ==
    [table |-> NonSchema(table_name), column_name |-> column_name]

\* Table::get_column
Table_get_column(self, column_name) == [table |-> self, column_name |-> column_name]

\* Display for Column
Column_fmt(self) == Table_get_table_name(self.table) \o <<".">> \o self.column_name

\* Display for Aggregation
Aggregation_fmt(self) ==
    (CASE self.kind = "Avg" -> <<"A", "V", "G">>
       [] self.kind = "Count" -> <<"C", "O", "U", "N", "T">>
       [] self.kind = "Sum" -> <<"S", "U", "M">>
       [] self.kind = "Min" -> <<"M", "I", "N">>
       [] self.kind = "Max" -> <<"M", "A", "X">>)
    \o <<"(">> \o Column_fmt(self.column) \o <<")">>

\* Display for ConditionOperator
ConditionOperator_fmt(operator) ==
    CASE operator = "Equal" -> <<"=">>
      [] operator = "NotEqual" -> <<"!", "=">>
      [] operator = "Greater" -> <<">">>
      [] operator = "GreaterEq" -> <<">", "=">>
      [] operator = "Lower" -> <<"<">>
      [] operator = "LowerEq" -> <<"<", "=">>
      [] operator = "In" -> <<"I", "N">>
      [] operator = "NotIn" -> <<"N", "O", "T", " ", "I", "N">>
      [] operator = "Like" -> <<"L", "I", "K", "E">>
      [] operator = "NotLike" -> <<"N", "O", "T", " ", "L", "I", "K", "E">>
      [] operator = "ILike" -> <<"I", "L", "I", "K", "E">>
      [] operator = "NotILike" -> <<"N", "O", "T", " ", "I", "L", "I", "K", "E">>
      [] operator = "IsNull" -> <<"I", "S", " ", "N", "U", "L", "L">>
      [] operator = "IsNotNull" -> <<"I", "S", " ", "N", "O", "T", " ", "N", "U", "L", "L">>

\* Display for BindMethod
BindMethod_fmt(bind_method) ==
    CASE bind_method = "And" -> <<"A", "N", "D">>
      [] bind_method = "Or" -> <<"O", "R">>
      [] bind_method = "FirstCondition" -> <<>>

\* Condition::OnMainTable and Condition::SameSchemaTable
OnMainTable(column, ref_value, operator) ==
    [kind |-> "OnMainTable", table_name |-> <<>>, column |-> column,
     ref_value |-> ref_value, operator |-> operator]
SameSchemaTable(table_name, column, ref_value, operator) ==
    [kind |-> "SameSchemaTable", table_name |-> table_name, column |-> column,
     ref_value |-> ref_value, operator |-> operator]

\* Condition::get_table_name
Condition_get_table_name(self) ==
    IF self.kind = "OnMainTable" THEN <<"m", "a", "i", "n">> ELSE self.table_name

\* The column of Condition::get_condition_statement
Condition_qualified_column(self) ==
    IF self.kind = "OnMainTable" THEN self.column
    ELSE self.table_name \o <<".">> \o self.column

\* A Condition with its bind_method field
BoundCondition(condition, bind_method) ==
    [kind |-> condition.kind, table_name |-> condition.table_name,
     column |-> condition.column, ref_value |-> condition.ref_value,
     operator |-> condition.operator, bind_method |-> bind_method]

\* Condition::get_condition_statement: Display for Variable writes the value
Condition_get_condition_statement(self) ==
    Condition_qualified_column(self) \o SP \o ConditionOperator_fmt(self.operator)
    \o SP \o self.ref_value

\* generator::base::condition::Conditions::new
BaseConditions_new == [conditions |-> <<>>, bind_methods |-> <<>>]

\* generator::base::condition::Conditions::add_condition
BaseConditions_add_condition(self, condition) ==
    IF condition.bind_method = "FirstCondition"
    THEN IF Len(self.conditions) # 0
         THEN [self |-> self, result |-> "InconsistentConfigError"]
         ELSE [self |-> [self EXCEPT !.conditions = Append(@, condition)], result |-> "Ok"]
    ELSE [self |-> [conditions |-> Append(self.conditions, condition),
                    bind_methods |-> Append(self.bind_methods,
                                            IF Len(self.conditions) = 0 THEN "FirstCondition"
                                            ELSE condition.bind_method)],
          result |-> "Ok"]

\* The pairs conditions.iter().zip(&bind_methods) yields: as many as the
\* shorter of the two holds
RECURSIVE zipped_statement_vec(_, _)
zipped_statement_vec(self, n) ==
    IF n = 0 THEN <<<<"W", "H", "E", "R", "E">>>>
    ELSE Append(IF self.bind_methods[n] = "FirstCondition"
                THEN zipped_statement_vec(self, n - 1)
                ELSE Append(zipped_statement_vec(self, n - 1),
                            BindMethod_fmt(self.bind_methods[n])),
                Condition_get_condition_statement(self.conditions[n]))

\* generator::base::condition::Conditions::get_condition_statement
BaseConditions_get_condition_statement(self) ==
    join(zipped_statement_vec(self, IF Len(self.conditions) < Len(self.bind_methods)
                                    THEN Len(self.conditions)
                                    ELSE Len(self.bind_methods)), SP)

\* The chain of WHERE predicates QueryGenerator holds.  QueryGenerator calls
\* add_condition(condition, bind_method), get_total_statement(start) and
\* get_all_params(); they are taken from the chain rules and the rendering
\* rule of the specification: the first marker is normalised to
\* FirstCondition, a second FirstCondition is an error, and the i-th
\* predicate renders as "<qualified column> <operator> $(start + i - 1)".
WhereConditions_new == [conditions |-> <<>>, bind_methods |-> <<>>]

WhereConditions_add_condition(self, condition, bind_method) ==
    IF bind_method = "FirstCondition" /\ Len(self.conditions) # 0
    THEN [self |-> self, result |-> "InconsistentConfigError"]
    ELSE [self |-> [conditions |-> Append(self.conditions, condition),
                    bind_methods |-> Append(self.bind_methods,
                                            IF Len(self.conditions) = 0 THEN "FirstCondition"
                                            ELSE bind_method)],
          result |-> "Ok"]

RECURSIVE where_statement_vec(_, _, _)
where_statement_vec(self, start_placeholder, n) ==
    IF n = 0 THEN <<<<"W", "H", "E", "R", "E">>>>
    ELSE LET before == where_statement_vec(self, start_placeholder, n - 1)
             bound == IF self.bind_methods[n] = "FirstCondition" THEN before
                      ELSE Append(before, BindMethod_fmt(self.bind_methods[n]))
         IN Append(bound, Condition_qualified_column(self.conditions[n]) \o SP
                          \o ConditionOperator_fmt(self.conditions[n].operator)
                          \o <<" ", "$">> \o to_string(start_placeholder + n - 1))

WhereConditions_get_total_statement(self, start_placeholder) ==
    join(where_statement_vec(self, start_placeholder, Len(self.conditions)), SP)

WhereConditions_get_all_params(self) ==
    [i \in 1..Len(self.conditions) |-> self.conditions[i].ref_value]

\* ReferenceValue::Variable and ReferenceValue::get_parameter_num / get_parameters
Variable(value) == [kind |-> "Variable", value |-> value]
ReferenceValue_get_parameter_num(self) == 1
ReferenceValue_get_parameters(self) == <<self.value>>

\* GroupCondition::new
GroupCondition_new(aggregation, condition_operator, ref_value) ==
    [aggregation |-> aggregation, ref_value |-> ref_value,
     condition_operator |-> condition_operator]

\* GeneratorPlaceholder for GroupCondition: get_statement
GroupCondition_get_statement(self, start_placeholder_number) ==
    Aggregation_fmt(self.aggregation) \o SP \o ConditionOperator_fmt(self.condition_operator)
    \o <<" ", "$">> \o to_string(start_placeholder_number)

\* GroupConditions::get_total_statement: `index` after the first n conditions
RECURSIVE group_index(_, _, _)
group_index(self, start_placeholder, n) ==
    IF n = 0 THEN start_placeholder
    ELSE group_index(self, start_placeholder, n - 1)
         + ReferenceValue_get_parameter_num(self[n].ref_value)

\* GroupConditions::get_total_statement whose index stays at start_placeholder
GroupConditions_get_total_statement_same_index(self, start_placeholder) ==
    join(<<<<"H", "A", "V", "I", "N", "G">>>>
         \o [n \in 1..Len(self) |-> GroupCondition_get_statement(self[n], start_placeholder)],
         SP)

\* GeneratorPlaceholderWrapper for GroupConditions: get_total_statement
GroupConditions_get_total_statement(self, start_placeholder) ==
    join(<<<<"H", "A", "V", "I", "N", "G">>>>
         \o [n \in 1..Len(self) |->
                GroupCondition_get_statement(self[n], group_index(self, start_placeholder, n - 1))],
         SP)

\* GeneratorPlaceholderWrapper for GroupConditions: get_all_params
RECURSIVE GroupConditions_get_all_params(_)
GroupConditions_get_all_params(self) ==
    IF Len(self) = 0 THEN <<>>
    ELSE GroupConditions_get_all_params(SubSeq(self, 1, Len(self) - 1))
         \o ReferenceValue_get_parameters(self[Len(self)].ref_value)

\* Groupings::get_grouping_statement
get_grouping_statement(groupings) ==
    <<"G", "R", "O", "U", "P", " ", "B", "Y", " ">>
    \o join([i \in 1..Len(groupings) |-> Column_fmt(groupings[i])], <<",", " ">>)

\* QueryColumns::create_all_columns and get_query_columns_statement
get_query_columns_statement(table) == Table_get_table_name(table) \o <<".", "*">>

\* JoinTable::SameSchemaTable with QueryColumns::AllColumns and
\* JoinColumns::AllColumns
JoinTable(table_name, join_method) == [table_name |-> table_name, join_method |-> join_method]

\* JoinTable::get_join_statement
JoinTable_get_join_statement(self, main_table_name) ==
    join(<<CASE self.join_method = "Inner" -> <<"J", "O", "I", "N">>
             [] self.join_method = "Left" -> <<"L", "E", "F", "T", " ", "J", "O", "I", "N">>
             [] self.join_method = "Right" -> <<"R", "I", "G", "H", "T", " ", "J", "O", "I", "N">>
             [] self.join_method = "Full" -> <<"F", "U", "L", "L", " ", "J", "O", "I", "N">>,
           self.table_name,
           <<"T", "R", "U", "E">>>>, SP)

\* JoinTables::get_total_statement: the join statements of the tables in the
\* order they were added; a join on TRUE uses no placeholder
JoinTables_get_total_statement(self, main_table_name, parameter_counter) ==
    join([i \in 1..Len(self) |-> JoinTable_get_join_statement(self[i], main_table_name)], SP)

\* JoinTables::get_query_columns: the columns selected from the joined tables
JoinTables_get_query_columns(self) ==
    join([i \in 1..Len(self) |-> self[i].table_name \o <<".", "*">>], <<",", " ">>)

\* SortRule::new
SortRule_new(column, sort_method) == [column |-> column, sort_method |-> sort_method]

\* SortRule::get_sort_statement
get_sort_statement(self) ==
    Column_fmt(self.column) \o SP
    \o (IF self.sort_method = "Asc" THEN <<"A", "S", "C">> ELSE <<"D", "E", "S", "C">>)

\* SortRules::get_sort_rule_statement
get_sort_rule_statement(sort_rules) ==
    <<"O", "R", "D", "E", "R", " ", "B", "Y", " ">>
    \o join([i \in 1..Len(sort_rules) |-> get_sort_statement(sort_rules[i])], <<",", " ">>)

\* QueryGenerator::new with QueryColumns::AllColumns(base_table)
QueryGenerator_new(base_table) ==
    [base_table |-> base_table,
     join_tables |-> <<>>,
     sort_rules |-> <<>>,
     conditions |-> WhereConditions_new,
     groupings |-> <<>>,
     group_conditions |-> <<>>,
     include_tables |-> {Table_get_table_name(base_table)},
     placeholder_start_num |-> 1]

\* QueryGenerator::table_validation
table_validation(self, table_name) ==
    IF table_name \notin self.include_tables THEN "InvalidTableNameError" ELSE "Ok"

\* QueryGenerator::add_condition
QueryGenerator_add_condition(self, condition, bind_method) ==
    IF table_validation(self, Condition_get_table_name(condition)) # "Ok"
    THEN [self |-> self, result |-> "InvalidTableNameError"]
    ELSE LET r == WhereConditions_add_condition(self.conditions, condition, bind_method)
         IN [self |-> [self EXCEPT !.conditions = r.self], result |-> r.result]

\* QueryGenerator::add_grouping
QueryGenerator_add_grouping(self, grouping_column) ==
    IF table_validation(self, Table_get_table_name(grouping_column.table)) # "Ok"
    THEN [self |-> self, result |-> "InvalidTableNameError"]
    ELSE [self |-> [self EXCEPT !.groupings = Append(@, grouping_column)], result |-> "Ok"]

\* QueryGenerator::add_aggregation_condition
QueryGenerator_add_aggregation_condition(self, aggregation_condition) ==
    IF table_validation(self, Table_get_table_name(aggregation_condition.aggregation.column.table))
       # "Ok"
    THEN [self |-> self, result |-> "InvalidTableNameError"]
    ELSE [self |-> [self EXCEPT !.group_conditions = Append(@, aggregation_condition)],
          result |-> "Ok"]

\* QueryGenerator::add_join_table: a join on TRUE names no other table
QueryGenerator_add_join_table(self, join_table) ==
    [self |-> [self EXCEPT !.include_tables = @ \cup {join_table.table_name},
                           !.join_tables = Append(@, join_table)],
     result |-> "Ok"]

\* QueryGenerator::add_sort_rule
QueryGenerator_add_sort_rule(self, sort_rule) ==
    IF table_validation(self, Table_get_table_name(sort_rule.column.table)) # "Ok"
    THEN [self |-> self, result |-> "InvalidTableNameError"]
    ELSE [self |-> [self EXCEPT !.sort_rules = Append(@, sort_rule)], result |-> "Ok"]

\* QueryGenerator::get_query_columns
QueryGenerator_get_query_columns(self) ==
    IF Len(self.join_tables) # 0
    THEN join(<<get_query_columns_statement(self.base_table),
                JoinTables_get_query_columns(self.join_tables)>>, <<",", " ">>)
    ELSE get_query_columns_statement(self.base_table)

\* The clauses get_statement pushes after FROM.  A join on TRUE and a WHERE
\* predicate on a Variable use the counter as the source hands it over.
join_clause(self, parameter_counter) ==
    IF Len(self.join_tables) # 0
    THEN <<JoinTables_get_total_statement(self.join_tables,
                                          Table_get_table_name(self.base_table),
                                          parameter_counter)>>
    ELSE <<>>
where_clause(self, parameter_counter) ==
    IF Len(self.conditions.conditions) # 0
    THEN <<WhereConditions_get_total_statement(self.conditions, parameter_counter)>>
    ELSE <<>>
grouping_clause(self) ==
    IF Len(self.groupings) # 0 THEN <<get_grouping_statement(self.groupings)>> ELSE <<>>
having_clause(self, parameter_counter) ==
    IF Len(self.group_conditions) # 0
    THEN <<GroupConditions_get_total_statement(self.group_conditions, parameter_counter)>>
    ELSE <<>>
sort_clause(self) ==
    IF Len(self.sort_rules) # 0 THEN <<get_sort_rule_statement(self.sort_rules)>> ELSE <<>>
select_from(self) ==
    <<<<"S", "E", "L", "E", "C", "T">>,
      QueryGenerator_get_query_columns(self),
      <<"F", "R", "O", "M", " ">> \o Table_fmt(self.base_table)>>
counter_after_where(self) ==
    IF Len(self.conditions.conditions) # 0
    THEN self.placeholder_start_num + Len(self.conditions.conditions)
    ELSE self.placeholder_start_num

\* get_statement that hands HAVING the counter WHERE started from
QueryGenerator_get_statement_counter_kept(self) ==
    join(select_from(self)
         \o join_clause(self, self.placeholder_start_num)
         \o where_clause(self, self.placeholder_start_num)
         \o grouping_clause(self)
         \o having_clause(self, self.placeholder_start_num)
         \o sort_clause(self), SP)

\* get_statement that pushes the sort rules before the HAVING predicates
QueryGenerator_get_statement_sorted_early(self) ==
    join(select_from(self)
         \o join_clause(self, self.placeholder_start_num)
         \o where_clause(self, self.placeholder_start_num)
         \o grouping_clause(self)
         \o sort_clause(self)
         \o having_clause(self, counter_after_where(self)), SP)

\* MainGenerator for QueryGenerator: get_statement
QueryGenerator_get_statement(self) ==
    join(select_from(self)
         \o join_clause(self, self.placeholder_start_num)
         \o where_clause(self, self.placeholder_start_num)
         \o grouping_clause(self)
         \o having_clause(self, counter_after_where(self))
         \o sort_clause(self), SP)

\* MainGenerator for QueryGenerator: get_params
QueryGenerator_get_params(self) ==
    Table_get_parameters(self.base_table)
    \o WhereConditions_get_all_params(self.conditions)
    \o GroupConditions_get_all_params(self.group_conditions)

\* MainGenerator for QueryGenerator: get_all_parameters_num
get_all_parameters_num(self) == self.placeholder_start_num

(***************************************************************************)
(* The inputs of the calls.                                                *)
(***************************************************************************)
ColA == <<"a">>
ColB == <<"b", "1">>
ColBad == <<"a", ";">>
ColInject == <<"$", "1">>
TableT == <<"t">>

\* "18" infers Int, "$2" infers Text, "7u16" fails inference (unsupported tag)
Val18 == <<"1", "8">>
ValDollar == <<"$", "2">>
ValBad == <<"7", "u", "1", "6">>
Values == {Val18, ValDollar, ValBad}

CondArg(column, value, comparison, joined) ==
    [column |-> column, value |-> value, comparison |-> comparison, joined |-> joined]

ConditionArgs ==
    {CondArg(ColA, Val18, "Equal", No),
     CondArg(ColB, ValDollar, "Lower", Yes(<<>>, <<"j">>)),
     CondArg(ColA, ValBad, "GraterEq", Yes(<<"s">>, <<"j">>)),
     CondArg(ColB, Val18, "LowerEq", Yes(<<>>, <<>>)),
     CondArg(ColA, ValDollar, "Grater", Yes(<<>>, ColInject)),
     CondArg(ColA, Val18, "Equal", Yes(<<"s", ";">>, <<"j">>)),
     CondArg(ColBad, Val18, "Equal", No),
     CondArg(ColA, Val18, "Equal", Yes(<<"s">>, <<>>))}

FewConditionArgs ==
    {CondArg(ColA, Val18, "Equal", No),
     CondArg(ColA, ValDollar, "Grater", Yes(<<>>, ColInject)),
     CondArg(ColBad, Val18, "Equal", No)}

ComparisonStrs == {"=", "ge", "<", "lower_eq", "gt", "+"}
ChainStrs == {"", "first", "and", "|", "test"}

SetArgs == {[column |-> ColA, value |-> Val18], [column |-> ColB, value |-> ValDollar],
            [column |-> ColBad, value |-> Val18]}

KeyLists == {<<>>, <<ColA>>, <<ColA, ColB>>, <<ColInject>>}
Records == {<<Val18>>, <<Val18, ValDollar>>, <<ValBad, Val18>>}

JoinArgs ==
    {[schema |-> <<>>, table_name |-> <<"j">>, join_columns |-> <<ColA>>,
      destination_columns |-> <<ColB>>],
     [schema |-> <<"s">>, table_name |-> <<"j">>, join_columns |-> <<ColA, ColB>>,
      destination_columns |-> <<ColB, ColA>>],
     [schema |-> <<>>, table_name |-> <<"j">>, join_columns |-> <<ColA>>,
      destination_columns |-> <<>>],
     [schema |-> <<>>, table_name |-> ColBad, join_columns |-> <<ColA>>,
      destination_columns |-> <<ColB>>]}

ColumnArgs ==
    {[schema_name |-> <<>>, table_name |-> <<>>, column |-> ColA],
     [schema_name |-> <<"s">>, table_name |-> <<"j">>, column |-> ColB],
     [schema_name |-> <<>>, table_name |-> <<>>, column |-> ColBad]}

SchemaArgs == {<<>>, <<"p">>, <<"p", ";">>}

(***************************************************************************)
(* The state machine.                                                      *)
(***************************************************************************)
Init ==
    /\ conditions = Conditions_new
    /\ update_sets = UpdateSets_new
    /\ insert_records = InsertRecords_new(<<>>)
    /\ join_tables = JoinTables_new
    /\ query_columns = QueryColumns_new(TRUE)
    /\ base = [table_name |-> PostgresBase_new(TableT, Unset).table_name,
               schema_name |-> PostgresBase_new(TableT, Unset).schema_name,
               client |-> PostgresBase_new(TableT, Unset).client]
    /\ ret = Call("new", "Ok")
    /\ arg = <<>>
    /\ out = [alphanumeric |-> FALSE, string |-> "none"]
    /\ generator = QueryGenerator_new(NonSchema(TableT))
    /\ where_chain = BaseConditions_new

AddConditionOver(args) ==
    /\ Len(conditions.conditions) < MaxConditions
    /\ \E a \in args, condition_chain \in LogicalOperator :
          LET r == add_condition(conditions, a.column, a.value, a.comparison,
                                 condition_chain, a.joined)
          IN /\ conditions' = r.self
             /\ ret' = [Call("add_condition", r.result) EXCEPT !.detail = r.detail,
                                                                !.chain = condition_chain]
    /\ UNCHANGED <<update_sets, insert_records, join_tables, query_columns, base, arg, out, generator, where_chain>>

AddConditionFromStrOver(args) ==
    /\ Len(conditions.conditions) < MaxConditions
    /\ \E a \in args, comparison_operator \in ComparisonStrs,
          condition_chain_operator \in ChainStrs :
          LET r == add_condition_from_str(conditions, a.column, a.value, comparison_operator,
                                          condition_chain_operator, a.joined)
          IN /\ conditions' = r.self
             /\ ret' = [Call("add_condition_from_str", r.result)
                          EXCEPT !.detail = r.detail,
                                 !.chain = chain_from_str(condition_chain_operator)]
    /\ UNCHANGED <<update_sets, insert_records, join_tables, query_columns, base, arg, out, generator, where_chain>>

AddCondition == AddConditionOver(ConditionArgs)
AddConditionFromStr == AddConditionFromStrOver(ConditionArgs)
AddFewCondition == AddConditionOver(FewConditionArgs)

AddSetOver(args) ==
    /\ Len(update_sets) < MaxSets
    /\ \E a \in args :
          LET r == add_set(update_sets, a.column, a.value)
          IN /\ update_sets' = r.self
             /\ ret' = Call("add_set", r.result)
    /\ UNCHANGED <<conditions, insert_records, join_tables, query_columns, base, arg, out, generator, where_chain>>

AddSet == AddSetOver(SetArgs)

NewInsertRecordsOver(key_lists) ==
    /\ \E columns \in key_lists :
          /\ insert_records' = InsertRecords_new(columns)
          /\ ret' = Call("InsertRecords_new", "Ok")
    /\ UNCHANGED <<conditions, update_sets, join_tables, query_columns, base, arg, out, generator, where_chain>>

NewInsertRecords == NewInsertRecordsOver(KeyLists)

AddRecordOver(records) ==
    /\ Len(insert_records.insert_records) < MaxRecords
    /\ \E record \in records :
          LET r == add_record(insert_records, record)
          IN /\ insert_records' = r.self
             /\ ret' = [Call("add_record", r.result) EXCEPT !.input = record]
    /\ UNCHANGED <<conditions, update_sets, join_tables, query_columns, base, arg, out, generator, where_chain>>

AddRecord == AddRecordOver(Records)

AddJoinTable ==
    /\ Len(join_tables) < MaxJoins
    /\ \E a \in JoinArgs :
          LET r == add_join_table(join_tables, a.schema, a.table_name, a.join_columns,
                                  a.destination_columns)
          IN /\ join_tables' = r.self
             /\ ret' = [Call("add_join_table", r.result) EXCEPT !.input = a]
    /\ UNCHANGED <<conditions, update_sets, insert_records, query_columns, base, arg, out, generator, where_chain>>

NewQueryColumns ==
    /\ \E all_columns \in BOOLEAN :
          /\ query_columns' = QueryColumns_new(all_columns)
          /\ ret' = Call("QueryColumns_new", "Ok")
    /\ UNCHANGED <<conditions, update_sets, insert_records, join_tables, base, arg, out, generator, where_chain>>

AddColumn ==
    /\ Len(query_columns.columns) < MaxColumns
    /\ \E a \in ColumnArgs :
          LET r == add_column(query_columns, a.schema_name, a.table_name, a.column)
          IN /\ query_columns' = r.self
             /\ ret' = Call("add_column", r.result)
    /\ UNCHANGED <<conditions, update_sets, insert_records, join_tables, base, arg, out, generator, where_chain>>

\* PostgresBase::connect: on a driver error `?` returns before client is assigned
Connect ==
    /\ \E connected \in BOOLEAN :
          IF connected
          THEN /\ base' = [base EXCEPT !.client = "Some"]
               /\ ret' = Call("connect", "Ok")
          ELSE /\ base' = base
               /\ ret' = Call("connect", "PGError")
    /\ UNCHANGED <<conditions, update_sets, insert_records, join_tables, query_columns, arg, out, generator, where_chain>>

SetSchema ==
    /\ \E schema_name \in SchemaArgs :
          /\ base' = set_schema(base, schema_name)
          /\ ret' = Call("set_schema", "Ok")
    /\ UNCHANGED <<conditions, update_sets, insert_records, join_tables, query_columns, arg, out, generator, where_chain>>

builders == <<conditions, update_sets, insert_records, join_tables, query_columns>>

Query ==
    /\ \E prepare_ok \in BOOLEAN, run_ok \in BOOLEAN :
          ret' = query_inner_join_conditions(base, query_columns, join_tables, conditions,
                                             prepare_ok, run_ok)
    /\ UNCHANGED <<builders, base, arg, out, generator, where_chain>>

Insert ==
    /\ \E prepare_ok \in BOOLEAN, run_ok \in BOOLEAN :
          ret' = insert(base, insert_records, prepare_ok, run_ok)
    /\ UNCHANGED <<builders, base, arg, out, generator, where_chain>>

Update ==
    /\ \E allow_all_update \in BOOLEAN, prepare_ok \in BOOLEAN, run_ok \in BOOLEAN :
          ret' = update(base, update_sets, allow_all_update, prepare_ok, run_ok)
    /\ UNCHANGED <<builders, base, arg, out, generator, where_chain>>

UpdateCondition ==
    /\ \E prepare_ok \in BOOLEAN, run_ok \in BOOLEAN :
          ret' = update_condition(base, update_sets, conditions, prepare_ok, run_ok)
    /\ UNCHANGED <<builders, base, arg, out, generator, where_chain>>

Delete ==
    /\ \E prepare_ok \in BOOLEAN, run_ok \in BOOLEAN :
          ret' = delete(base, conditions, prepare_ok, run_ok)
    /\ UNCHANGED <<builders, base, arg, out, generator, where_chain>>

\* The characters names are drawn from when the validator is checked alone
NameChars == {"a", "Z", "U+00E9", "7", "_", ";", ".", " ", "'", "=", "$", "-"}

RECURSIVE TextsUpTo(_, _)
TextsUpTo(chars, n) ==
    IF n = 0 THEN {<<>>}
    ELSE TextsUpTo(chars, n - 1)
         \cup {Append(t, c) : t \in TextsUpTo(chars, n - 1), c \in chars}

Validate ==
    /\ \E s \in TextsUpTo(NameChars, MaxNameLen) :
          /\ arg' = s
          /\ out' = [alphanumeric |-> validate_alphanumeric_name(s, <<"_">>),
                     string |-> validate_string(s)]
    /\ UNCHANGED <<builders, base, ret, generator, where_chain>>

\* Integer literals: the short ones, the ones around the limits of i16, i32 and
\* i64, and remainders that are no integers
LimitLiterals ==
    {<<"3", "2", "7", "6", "7">>, <<"3", "2", "7", "6", "8">>, <<"3", "2", "7", "6", "9">>,
     <<"0", "0", "0", "3", "2", "7", "6", "7">>,
     <<"2", "1", "4", "7", "4", "8", "3", "6", "4", "7">>,
     <<"2", "1", "4", "7", "4", "8", "3", "6", "4", "8">>,
     <<"2", "1", "4", "7", "4", "8", "3", "6", "4", "9">>,
     <<"9", "9", "9", "9", "9", "9", "9", "9", "9", "9", "9">>,
     <<"9", "2", "2", "3", "3", "7", "2", "0", "3", "6", "8", "5", "4", "7", "7", "5", "8", "0", "7">>,
     <<"9", "2", "2", "3", "3", "7", "2", "0", "3", "6", "8", "5", "4", "7", "7", "5", "8", "0", "8">>,
     <<"9", "2", "2", "3", "3", "7", "2", "0", "3", "6", "8", "5", "4", "7", "7", "5", "8", "0", "9">>}
NoIntegers == {<<"1", ".", "5">>, <<"4", "x">>, <<"t", "r", "u", "e">>, <<"4", "u", "1", "6">>}
Signs == {<<>>, <<"-">>, <<"+">>}
Tags == {<<>>, <<"i", "1", "6">>, <<"i", "6", "4">>, <<"f", "6", "4">>, <<"d", "e", "c">>}

\* str_to_param on a literal with or without a type tag; one text is inferred
\* in a behaviour
InferLiteral ==
    /\ ret.op = "new"
    /\ \E sign \in Signs, tag \in Tags,
          body \in TextsUpTo(AsciiDigits, MaxDigits) \cup LimitLiterals \cup NoIntegers :
          LET data == sign \o body \o tag
              param == str_to_param(data)
          IN /\ arg' = data
             /\ ret' = [Call("str_to_param", IF param.ok THEN "Ok" ELSE "Err")
                            EXCEPT !.input = data, !.bound = <<param>>]
    /\ UNCHANGED <<builders, base, out, generator, where_chain>>

\* Texts of dates, times and timestamps: three groups of digits joined by a
\* date separator (one of them with a sign in front), or a month name, a day
\* and a year; times; and dates followed by a time
AllDateGroups ==
    <<<<"2", "0", "2", "4">>,
      <<"0", "1">>,
      <<"0", "2">>,
      <<"1", "3">>,
      <<"4", "0">>,
      <<"2", "4">>,
      <<"1", "5">>,
      <<"9", "9">>,
      <<"1", "2", "4">>>>
DateGroups == {AllDateGroups[i] : i \in 1..MaxDateGroups}
MonthWords == {<<"J", "a", "n", "u", "a", "r", "y">>, <<"f", "e", "b">>}
TimeTexts ==
    {<<"1", "0", ":", "3", "0">>,
     <<"1", "0", ":", "3", "0", ":", "1", "5", " ", "P", "M">>,
     <<"1", "0", ":", "3", "0", " ", "+", "0", "9", "0", "0">>,
     <<"1", "0", ":", "3", "0", ":", "1", "5", "Z">>}
NumericDates(groups) ==
    {g1 \o <<sep>> \o g2 \o <<sep>> \o g3 :
        g1 \in groups, g2 \in groups, g3 \in groups, sep \in {"-", "/"}}
NamedDates(groups) ==
    {word \o <<" ">> \o g1 \o <<",", " ">> \o g2 :
        word \in MonthWords, g1 \in groups, g2 \in groups}
DateTexts ==
    NumericDates(DateGroups) \cup NamedDates(DateGroups)
    \cup {<<"-">> \o date : date \in NumericDates({AllDateGroups[2]})}
TimestampTexts ==
    {date \o <<joint>> \o time :
        date \in NumericDates({AllDateGroups[i] : i \in 1..3})
                 \cup NamedDates({AllDateGroups[i] : i \in 1..2}),
        joint \in {" ", "T"},
        time \in {<<"1", "0", ":", "3", "0">>, <<"1", "0", ":", "3", "0", " ", "+", "0", "9", "0", "0">>}}

\* Timestamps with a zone: RFC 3339, RFC 2822, `%Y-%m-%d %H:%M:%S %z`, and a
\* timestamp followed by a zone name
ZonedTexts ==
    {<<"2", "0", "2", "4", "-", "0", "1", "-", "0", "2", "T", "1", "0", ":", "3", "0", ":", "1", "5", "Z">>,
     <<"2", "0", "2", "4", "-", "0", "1", "-", "0", "2", "T", "1", "0", ":", "3", "0", ":", "1", "5", "+", "0", "9", ":", "0", "0">>,
     <<"0", "2", " ", "J", "a", "n", " ", "2", "0", "2", "4", " ", "1", "0", ":", "3", "0", ":", "1", "5", " ", "+", "0", "9", "0", "0">>,
     <<"2", "0", "2", "4", "-", "0", "1", "-", "0", "2", " ", "1", "0", ":", "3", "0", ":", "1", "5", " ", "+", "0", "9", "0", "0">>,
     <<"2", "0", "2", "4", "-", "0", "1", "-", "0", "2", " ", "1", "0", ":", "3", "0", " ", "J", "S", "T">>,
     <<"2", "0", "2", "4", "-", "0", "1", "-", "0", "2", " ", "1", "0", ":", "3", "0", " ", "d", "e", "c">>,
     <<"0", "0", "2", "4", "-", "0", "1", "-", "0", "2", " ", "1", "0", ":", "3", "0", ":", "1", "5", " ", "+", "0", "9", "0", "0">>}

\* str_to_param on the text of a date, a time or a timestamp; one text is
\* inferred in a behaviour
InferTemporal ==
    /\ ret.op = "new"
    /\ \E data \in DateTexts \cup TimeTexts \cup TimestampTexts \cup ZonedTexts :
          LET param == str_to_param(data)
          IN /\ arg' = data
             /\ ret' = [Call("str_to_param", IF param.ok THEN "Ok" ELSE "Err")
                            EXCEPT !.input = data, !.bound = <<param>>]
    /\ UNCHANGED <<builders, base, out, generator, where_chain>>

\* Statements handed to the driver by query, insert and delete
Next ==
    \/ AddFewCondition
    \/ AddJoinTable
    \/ NewQueryColumns
    \/ AddColumn
    \/ NewInsertRecords
    \/ AddRecord
    \/ Connect
    \/ Query
    \/ Insert
    \/ Delete

Spec == Init /\ [][Next]_vars

\* The Conditions builder alone
NextCond == AddCondition \/ AddConditionFromStr
SpecCond == Init /\ [][NextCond]_vars

\* The three value-carrying builders
NextBuild == AddFewCondition \/ AddSet \/ NewInsertRecords \/ AddRecord
SpecBuild == Init /\ [][NextBuild]_vars

\* UPDATE statements
NextUpdate == AddFewCondition \/ AddSet \/ Connect \/ Update \/ UpdateCondition
SpecUpdate == Init /\ [][NextUpdate]_vars

\* DELETE statements
NextDelete == AddCondition \/ Connect \/ SetSchema \/ Delete
SpecDelete == Init /\ [][NextDelete]_vars

\* The identifier validator as a pure function
NextValidate == Validate
SpecValidate == Init /\ [][NextValidate]_vars

(***************************************************************************)
(* The calls on a QueryGenerator.                                          *)
(***************************************************************************)
SubQueryName == <<"s", "u", "b", "_", "q", "u", "e", "r", "y">>

GeneratorConditionArgs ==
    {SameSchemaTable(TableT, ColA, Val18, "Equal"),
     SameSchemaTable(SubQueryName, ColB, ValDollar, "Greater"),
     OnMainTable(ColA, Val18, "Equal")}

GroupConditionArgs ==
    {GroupCondition_new([kind |-> "Avg", column |-> create_column(TableT, ColA)],
                        "GreaterEq", Variable(ValBad)),
     GroupCondition_new([kind |-> "Count", column |-> create_column(SubQueryName, ColB)],
                        "Lower", Variable(Val18))}

GroupingArgs == {create_column(TableT, ColA), create_column(SubQueryName, ColB)}

BindMethod == {"FirstCondition", "And", "Or"}

NewQueryGenerator ==
    /\ generator' = QueryGenerator_new(NonSchema(TableT))
    /\ ret' = Call("QueryGenerator_new", "Ok")
    /\ UNCHANGED <<builders, base, arg, out, where_chain>>

\* A generator over a sub-query: the generator built so far becomes the base
\* table of a new one.  Sub-queries are nested one level deep.
NewSubQueryGenerator ==
    /\ generator.base_table.kind = "NonSchema"
    /\ generator' = QueryGenerator_new(SubQueryAsTable(generator))
    /\ ret' = Call("QueryGenerator_new", "Ok")
    /\ UNCHANGED <<builders, base, arg, out, where_chain>>

GeneratorAddCondition ==
    /\ Len(generator.conditions.conditions) < MaxWhere
    /\ \E condition \in GeneratorConditionArgs, bind_method \in BindMethod :
          LET r == QueryGenerator_add_condition(generator, condition, bind_method)
          IN /\ generator' = r.self
             /\ ret' = [Call("QueryGenerator_add_condition", r.result)
                          EXCEPT !.chain = bind_method]
    /\ UNCHANGED <<builders, base, arg, out, where_chain>>

GeneratorAddGrouping ==
    /\ Len(generator.groupings) < MaxGroupings
    /\ \E grouping_column \in GroupingArgs :
          LET r == QueryGenerator_add_grouping(generator, grouping_column)
          IN /\ generator' = r.self
             /\ ret' = Call("add_grouping", r.result)
    /\ UNCHANGED <<builders, base, arg, out, where_chain>>

GeneratorAddAggregationCondition ==
    /\ Len(generator.group_conditions) < MaxHaving
    /\ \E aggregation_condition \in GroupConditionArgs :
          LET r == QueryGenerator_add_aggregation_condition(generator, aggregation_condition)
          IN /\ generator' = r.self
             /\ ret' = Call("add_aggregation_condition", r.result)
    /\ UNCHANGED <<builders, base, arg, out, where_chain>>

GetStatement ==
    /\ ret' = [Call("get_statement", "Ok")
                 EXCEPT !.built = TRUE,
                        !.statement = QueryGenerator_get_statement(generator),
                        !.params = QueryGenerator_get_params(generator)]
    /\ UNCHANGED <<builders, base, arg, out, generator, where_chain>>

NextGenerator ==
    \/ NewQueryGenerator
    \/ NewSubQueryGenerator
    \/ GeneratorAddCondition
    \/ GeneratorAddGrouping
    \/ GeneratorAddAggregationCondition
    \/ GetStatement
SpecGenerator == Init /\ [][NextGenerator]_vars

\* The calls that fill the clauses of a SELECT statement, in any order
TableU == <<"u">>

JoinTableArgs == {JoinTable(TableU, "Inner"), JoinTable(TableU, "Left")}

SortRuleArgs ==
    {SortRule_new(create_column(TableT, ColA), "Asc"),
     SortRule_new(create_column(TableU, ColB), "Desc")}

GeneratorAddJoinTable ==
    /\ Len(generator.join_tables) < MaxJoinTables
    /\ \E join_table \in JoinTableArgs :
          LET r == QueryGenerator_add_join_table(generator, join_table)
          IN /\ generator' = r.self
             /\ ret' = Call("add_join_table", r.result)
    /\ UNCHANGED <<builders, base, arg, out, where_chain>>

GeneratorAddSortRule ==
    /\ Len(generator.sort_rules) < MaxSortRules
    /\ \E sort_rule \in SortRuleArgs :
          LET r == QueryGenerator_add_sort_rule(generator, sort_rule)
          IN /\ generator' = r.self
             /\ ret' = Call("add_sort_rule", r.result)
    /\ UNCHANGED <<builders, base, arg, out, where_chain>>

NextSelect ==
    \/ NewQueryGenerator
    \/ GeneratorAddJoinTable
    \/ GeneratorAddCondition
    \/ GeneratorAddGrouping
    \/ GeneratorAddAggregationCondition
    \/ GeneratorAddSortRule
    \/ GetStatement
SpecSelect == Init /\ [][NextSelect]_vars

\* The calls on a chain of WHERE predicates of the generator
BaseConditionArgs ==
    {BoundCondition(c, bind_method) : c \in GeneratorConditionArgs, bind_method \in BindMethod}

NewBaseConditions ==
    /\ where_chain' = BaseConditions_new
    /\ ret' = Call("BaseConditions_new", "Ok")
    /\ UNCHANGED <<builders, base, arg, out, generator>>

BaseAddCondition ==
    /\ Len(where_chain.conditions) < MaxChain
    /\ \E condition \in BaseConditionArgs :
          LET r == BaseConditions_add_condition(where_chain, condition)
          IN /\ where_chain' = r.self
             /\ ret' = [Call("BaseConditions_add_condition", r.result)
                          EXCEPT !.chain = condition.bind_method]
    /\ UNCHANGED <<builders, base, arg, out, generator>>

BaseGetConditionStatement ==
    /\ Len(where_chain.conditions) # 0
    /\ ret' = [Call("get_condition_statement", "Ok")
                 EXCEPT !.built = TRUE,
                        !.statement = BaseConditions_get_condition_statement(where_chain)]
    /\ UNCHANGED <<builders, base, arg, out, generator, where_chain>>

NextChain == NewBaseConditions \/ BaseAddCondition \/ BaseGetConditionStatement
SpecChain == Init /\ [][NextChain]_vars

\* Connecting and the four calls that reach execute_core, on builders that
\* each take one kind of append
AddLoneCondition == AddConditionOver({CondArg(ColA, ValBad, "Equal", No)})
AddLoneSet == AddSetOver({[column |-> ColB, value |-> ValDollar]})
NewLoneInsertRecords == NewInsertRecordsOver({<<ColA, ColB>>})
AddLoneRecord == AddRecordOver({<<ValBad, Val18>>})

NextConnect ==
    \/ AddLoneCondition
    \/ AddLoneSet
    \/ NewLoneInsertRecords
    \/ AddLoneRecord
    \/ Connect
    \/ Query
    \/ Insert
    \/ UpdateCondition
    \/ Delete
SpecConnect == Init /\ [][NextConnect]_vars

\* The queries that return JSON text
QueryJson ==
    /\ \E prepare_ok \in BOOLEAN, run_ok \in BOOLEAN, query_result \in 0..MaxRows :
          ret' = [query_json(base, query_columns, prepare_ok, run_ok, query_result)
                    EXCEPT !.op = "query_json"]
    /\ UNCHANGED <<builders, base, arg, out, generator, where_chain>>

QueryConditionJson ==
    /\ \E prepare_ok \in BOOLEAN, run_ok \in BOOLEAN, query_result \in 0..MaxRows :
          ret' = [query_condition_json(base, query_columns, conditions,
                                       prepare_ok, run_ok, query_result)
                    EXCEPT !.op = "query_condition_json"]
    /\ UNCHANGED <<builders, base, arg, out, generator, where_chain>>

QueryInnerJoinConditionsJson ==
    /\ \E prepare_ok \in BOOLEAN, run_ok \in BOOLEAN, query_result \in 0..MaxRows :
          ret' = [query_inner_join_conditions_json(base, query_columns, join_tables, conditions,
                                                   prepare_ok, run_ok, query_result)
                    EXCEPT !.op = "query_inner_join_conditions_json"]
    /\ UNCHANGED <<builders, base, arg, out, generator, where_chain>>

NextJson ==
    \/ AddFewCondition
    \/ AddJoinTable
    \/ NewQueryColumns
    \/ AddColumn
    \/ Connect
    \/ QueryJson
    \/ QueryConditionJson
    \/ QueryInnerJoinConditionsJson
SpecJson == Init /\ [][NextJson]_vars

\* The display texts of an UpdateSets and an InsertRecords
GetUpdateText ==
    /\ ret' = [Call("get_update_text", "Ok")
                 EXCEPT !.statement = get_update_text(update_sets),
                        !.params = UpdateSets_get_flat_values(update_sets)]
    /\ UNCHANGED <<builders, base, arg, out, generator, where_chain>>

GetInsertText ==
    /\ ret' = [Call("get_insert_text", "Ok")
                 EXCEPT !.statement = get_insert_text(insert_records),
                        !.params = InsertRecords_get_flat_values(insert_records)]
    /\ UNCHANGED <<builders, base, arg, out, generator, where_chain>>

NextText == AddSet \/ NewInsertRecords \/ AddRecord \/ GetUpdateText \/ GetInsertText
SpecText == Init /\ [][NextText]_vars

\* Appends to an InsertRecords and a JoinTables
NextAppend == NewInsertRecords \/ AddRecord \/ AddJoinTable
SpecAppend == Init /\ [][NextAppend]_vars

\* Type inference as a pure function
NextInfer == InferLiteral
SpecInfer == Init /\ [][NextInfer]_vars

\* Type inference on the texts of dates, times and timestamps
NextTemporal == InferTemporal
SpecTemporal == Init /\ [][NextTemporal]_vars

(***************************************************************************)
(* Reading a statement text back.                                          *)
(***************************************************************************)
\* The placeholders of a statement text, in textual order: every "$" that is
\* followed by digits, read with the longest run of digits.
placeholder_places(text) ==
    {i \in 1..(Len(text) - 1) : text[i] = "$" /\ text[i + 1] \in AsciiDigits}

placeholder_at(text, i) ==
    LET j == CHOOSE j \in (i + 1)..Len(text) :
                 /\ \A k \in (i + 1)..j : text[k] \in AsciiDigits
                 /\ j < Len(text) => text[j + 1] \notin AsciiDigits
    IN nat_value(SubSeq(text, i + 1, j))

Placeholders(text) ==
    LET places == placeholder_places(text)
    IN [n \in 1..Cardinality(places) |->
           placeholder_at(text, CHOOSE i \in places :
                                    Cardinality({j \in places : j < i}) = n - 1)]

Range(f) == {f[i] : i \in DOMAIN f}

ContainsText(text, part) ==
    \E i \in 0..(Len(text) - Len(part)) : SubSeq(text, i + 1, i + Len(part)) = part

OneToN(n) == [i \in 1..n |-> i]

(***************************************************************************)
(* C1.  Values never reach the SQL text: the text rendered from a builder  *)
(* is the text rendered from the same builder with every value replaced by *)
(* any other value text, for Conditions::generate_statement_text,          *)
(* UpdateSets::build_sql and InsertRecords::build_sql; and every bound     *)
(* value of a condition chain has its placeholder in the text.             *)
(***************************************************************************)
ConditionsWithValue(self, v) ==
    [self EXCEPT !.conditions = [i \in 1..Len(self.conditions) |->
                                     [self.conditions[i] EXCEPT !.value = v]]]
UpdateSetsWithValue(self, v) == [i \in 1..Len(self) |-> [self[i] EXCEPT !.value = v]]
InsertRecordsWithValue(self, v) ==
    [self EXCEPT !.insert_records =
        [r \in 1..Len(self.insert_records) |->
            [values |-> [k \in 1..Len(self.insert_records[r].values) |-> v]]]]

C1_ValuesNeverInText ==
    \A v \in Values :
        /\ \A s \in 0..MaxStart :
              /\ Conditions_generate_statement_text(conditions, s)
                 = Conditions_generate_statement_text(ConditionsWithValue(conditions, v), s)
              /\ \A i \in 1..Len(conditions.conditions) :
                    (s + i) \in Range(Placeholders(Conditions_generate_statement_text(conditions, s)))
        /\ UpdateSets_build_sql(update_sets, TableT)
           = UpdateSets_build_sql(UpdateSetsWithValue(update_sets, v), TableT)
        /\ InsertRecords_build_sql(insert_records, TableT)
           = InsertRecords_build_sql(InsertRecordsWithValue(insert_records, v), TableT)

C1_Witness ==
    /\ Len(conditions.conditions) = 2
    /\ conditions.conditions[1].value # conditions.conditions[2].value
    /\ Len(update_sets) = 2
    /\ update_sets[1].value # update_sets[2].value
    /\ Len(insert_records.insert_records) = 2
    /\ Len(insert_records.keys) = 2
    /\ insert_records.insert_records[1].values # insert_records.insert_records[2].values

(***************************************************************************)
(* C2.  Positional alignment: in every statement that query, insert or     *)
(* delete hands to the driver the placeholders are exactly $1..$N, each   *)
(* once and in textual order, N is the length of the parameter list, and  *)
(* the i-th parameter is the value of the i-th predicate or cell.         *)
(***************************************************************************)
C2_PositionalAlignment ==
    (ret.prepared /\ ret.op \in {"query", "insert", "delete"}) =>
        /\ Placeholders(ret.statement) = OneToN(Len(ret.params))
        /\ ret.params = IF ret.op = "insert"
                        THEN InsertRecords_get_flat_values(insert_records)
                        ELSE Conditions_get_flat_values(conditions)
        /\ ret.executed =>
              /\ Len(ret.bound) = Len(ret.params)
              /\ \A i \in 1..Len(ret.bound) : ret.bound[i].text = ret.params[i]

(***************************************************************************)
(* C3.  Every schema name, table name and column name a Conditions holds   *)
(* after successful add_condition calls, and so places into the SQL text,  *)
(* consists of letters, digits and underscore only.                        *)
(***************************************************************************)
C3_ConditionIdentifiersValid ==
    \A i \in 1..Len(conditions.conditions) :
        LET c == conditions.conditions[i]
        IN /\ validate_alphanumeric_name(c.key, <<"_">>)
           /\ validate_alphanumeric_name(c.is_joined_table_condition.schema_name, <<"_">>)
           /\ validate_alphanumeric_name(c.is_joined_table_condition.table_name, <<"_">>)

(***************************************************************************)
(* C4.  validate_alphanumeric_name(s, "_") is true exactly for the names   *)
(* whose characters are all letters, digits or underscores, false for any  *)
(* name holding another character, and validate_string is Ok exactly when  *)
(* it is true.                                                             *)
(***************************************************************************)
OtherChars == {";", ".", " ", "'", "=", "$", "-"}

C4_ValidatorAcceptsExactlyNames ==
    out.string # "none" =>
        /\ (\A i \in 1..Len(arg) : arg[i] \notin OtherChars) => out.alphanumeric
        /\ (\E i \in 1..Len(arg) : arg[i] \in OtherChars) => ~out.alphanumeric
        /\ (out.string = "Ok") <=> (\A i \in 1..Len(arg) : arg[i] \notin OtherChars)

C4_Witness ==
    /\ out.string # "none"
    /\ Len(arg) = 2
    /\ arg[1] \notin OtherChars
    /\ arg[2] \in OtherChars
    /\ ~out.alphanumeric
    /\ out.string = "InputInvalidError"

(***************************************************************************)
(* C5.  update(sets, false) returns UnsafeExecutionError without           *)
(* assembling a statement, and no call other than update with              *)
(* allow_all_update = true hands an UPDATE without a WHERE clause to the   *)
(* driver.                                                                 *)
(***************************************************************************)
WhereKeyword == <<" ", "W", "H", "E", "R", "E", " ">>

C5_NoUnconditionalUpdate ==
    /\ (ret.op = "update" /\ ret.detail = "allow_all_update=false") =>
          ret.result = "UnsafeExecutionError" /\ ~ret.built /\ ~ret.prepared
    /\ (ret.op = "update_condition" /\ ret.prepared) =>
          ContainsText(ret.statement, WhereKeyword)

(***************************************************************************)
(* C6.  delete with an empty Conditions returns UnsafeExecutionError,      *)
(* builds no SQL text and invokes neither prepare nor execute; a DELETE    *)
(* that is handed to the driver carries a WHERE clause with at least one   *)
(* predicate.                                                              *)
(***************************************************************************)
C6_DeleteNeedsCondition ==
    ret.op = "delete" =>
        /\ Conditions_is_empty(conditions) =>
              /\ ret.result = "UnsafeExecutionError"
              /\ ~ret.built
              /\ ret.statement = <<>>
              /\ ~ret.prepared
              /\ ~ret.executed
        /\ ret.prepared =>
              /\ ContainsText(ret.statement, WhereKeyword)
              /\ Len(ret.params) >= 1
              /\ 1 \in Range(Placeholders(ret.statement))

C6_Witness ==
    /\ ret.op = "delete"
    /\ Conditions_is_empty(conditions)
    /\ ret.result = "UnsafeExecutionError"
    /\ base.client = "Some"

(***************************************************************************)
(* C7.  Chain invariant: logics and conditions have the same length, and   *)
(* in a non-empty chain logics[0] is FirstCondition and no other position  *)
(* holds FirstCondition.                                                   *)
(***************************************************************************)
C7_ChainInvariant ==
    /\ Len(conditions.logics) = Len(conditions.conditions)
    /\ \A i \in 1..Len(conditions.logics) :
          (conditions.logics[i] = "FirstCondition") <=> (i = 1)

C7_Witness ==
    /\ ret.op = "add_condition"
    /\ ret.chain \in {"And", "Or"}
    /\ ret.result = "Ok"
    /\ Len(conditions.conditions) = 1
    /\ conditions.logics[1] = "FirstCondition"

(***************************************************************************)
(* C8.  add_condition with FirstCondition on a chain that already holds a  *)
(* condition returns InputInvalidError (and appends nothing), whatever the *)
(* other arguments.                                                        *)
(***************************************************************************)
C8_SecondFirstConditionRejected ==
    [][(/\ Len(conditions.conditions) >= 1
        /\ ret'.op \in {"add_condition", "add_condition_from_str"}
        /\ ret'.chain = "FirstCondition")
       => (ret'.result = "InputInvalidError" /\ conditions' = conditions)]_vars

C8_Witness ==
    /\ ret.op = "add_condition"
    /\ ret.chain = "FirstCondition"
    /\ ret.result = "InputInvalidError"
    /\ ret.detail = "already_condition_exists"
    /\ Len(conditions.conditions) >= 1

(***************************************************************************)
(* C9.  WHERE rendering.  The text for a chain of n >= 1 predicates and a  *)
(* start index s is WHERE followed by the predicates in insertion order,   *)
(* the i-th as "<qualified column> <operator> $(s+i)", preceded by AND or  *)
(* OR after the first; an empty chain renders the empty text.              *)
(* As claimed, the qualified column of a joined-table condition is         *)
(* schema.table.column, or table.column when the schema is empty.  As the  *)
(* code has it, a joined-table condition whose schema and table are both   *)
(* empty renders the bare column.                                          *)
(***************************************************************************)
ClaimedOperator(operator) ==
    CASE operator = "Equal" -> <<"=">>
      [] operator = "Lower" -> <<"<">>
      [] operator = "Grater" -> <<">">>
      [] operator = "LowerEq" -> <<"<", "=">>
      [] operator = "GraterEq" -> <<">", "=">>

ClaimedQualifiedColumn(c) ==
    LET j == c.is_joined_table_condition
    IN IF j.kind = "No" THEN c.key
       ELSE IF j.schema_name # <<>> THEN j.schema_name \o <<".">> \o j.table_name \o <<".">> \o c.key
       ELSE j.table_name \o <<".">> \o c.key

AmendedQualifiedColumn(c) ==
    LET j == c.is_joined_table_condition
    IN IF j.kind = "No" THEN c.key
       ELSE IF j.schema_name # <<>> THEN j.schema_name \o <<".">> \o j.table_name \o <<".">> \o c.key
       ELSE IF j.table_name # <<>> THEN j.table_name \o <<".">> \o c.key
       ELSE c.key

Keyword(logic) == IF logic = "And" THEN <<" ", "A", "N", "D">> ELSE <<" ", "O", "R">>

RECURSIVE ClaimedWhere(_, _, _)
ClaimedWhere(self, s, n) ==
    IF n = 0 THEN <<>>
    ELSE (IF n = 1 THEN <<"W", "H", "E", "R", "E">>
          ELSE ClaimedWhere(self, s, n - 1) \o Keyword(self.logics[n]))
         \o SP \o ClaimedQualifiedColumn(self.conditions[n])
         \o SP \o ClaimedOperator(self.conditions[n].operator)
         \o <<" ", "$">> \o to_string(s + n)

RECURSIVE AmendedWhere(_, _, _)
AmendedWhere(self, s, n) ==
    IF n = 0 THEN <<>>
    ELSE (IF n = 1 THEN <<"W", "H", "E", "R", "E">>
          ELSE AmendedWhere(self, s, n - 1) \o Keyword(self.logics[n]))
         \o SP \o AmendedQualifiedColumn(self.conditions[n])
         \o SP \o ClaimedOperator(self.conditions[n].operator)
         \o <<" ", "$">> \o to_string(s + n)

C9_WhereRenderingAsClaimed ==
    \A s \in 0..MaxStart :
        Conditions_generate_statement_text(conditions, s)
        = ClaimedWhere(conditions, s, Len(conditions.conditions))

C9_WhereRendering ==
    \A s \in 0..MaxStart :
        Conditions_generate_statement_text(conditions, s)
        = AmendedWhere(conditions, s, Len(conditions.conditions))

C9_Witness ==
    /\ Len(conditions.conditions) = 2
    /\ conditions.logics[2] = "Or"
    /\ conditions.conditions[1].is_joined_table_condition = Yes(<<>>, <<>>)
    /\ conditions.conditions[2].is_joined_table_condition = Yes(<<"s">>, <<"j">>)

(***************************************************************************)
(* C10.  UPDATE numbering: for S assignments and W predicates the          *)
(* statement update_condition builds has the SET clause with $1..$S in     *)
(* insertion order, the WHERE clause with $S+1..$S+W in insertion order,   *)
(* and the parameter list is the S set values followed by the W condition  *)
(* values.                                                                 *)
(***************************************************************************)
RECURSIVE ClaimedAssignments(_, _)
ClaimedAssignments(sets, n) ==
    IF n = 0 THEN <<>>
    ELSE ClaimedAssignments(sets, n - 1)
         \o (IF n > 1 THEN <<",", " ">> ELSE <<>>)
         \o sets[n].column \o <<" ", "=", " ", "$">> \o to_string(n)

ClaimedUpdate(table_name, sets, conds) ==
    <<"U", "P", "D", "A", "T", "E", " ">> \o table_name \o <<" ", "S", "E", "T", " ">>
    \o ClaimedAssignments(sets, Len(sets))
    \o (IF Len(conds.conditions) = 0 THEN <<>>
        ELSE SP \o AmendedWhere(conds, Len(sets), Len(conds.conditions)))

C10_UpdateNumbering ==
    (ret.op = "update_condition" /\ ret.built) =>
        /\ ret.statement = ClaimedUpdate(base.table_name, update_sets, conditions)
        /\ ret.params = [i \in 1..(Len(update_sets) + Len(conditions.conditions)) |->
                            IF i <= Len(update_sets) THEN update_sets[i].value
                            ELSE conditions.conditions[i - Len(update_sets)].value]
        /\ ret.executed => \A i \in 1..Len(ret.params) : ret.bound[i].text = ret.params[i]

C10_Witness ==
    /\ ret.op = "update_condition"
    /\ ret.executed
    /\ Len(update_sets) = 2
    /\ Len(conditions.conditions) = 2
    /\ Placeholders(ret.statement) = <<1, 2, 3, 4>>

(***************************************************************************)
(* C11.  WHERE/HAVING numbering: in the statement get_statement returns    *)
(* for a QueryGenerator with W WHERE predicates and H HAVING predicates,   *)
(* each bound to one Variable, the placeholders of the WHERE clause are    *)
(* $1..$W and those of the HAVING clause $W+1..$W+H, in this order, with   *)
(* no gaps and no repeats.                                                 *)
(***************************************************************************)
LastIndexOf(text, part) ==
    LET places == {i \in 1..(Len(text) - Len(part) + 1) :
                       SubSeq(text, i, i + Len(part) - 1) = part}
    IN IF places = {} THEN 0 ELSE CHOOSE i \in places : \A j \in places : j <= i

SubQueryAlias == <<"A", "S", " ", "s", "u", "b", "_", "q", "u", "e", "r", "y">>
HavingKeyword == <<"H", "A", "V", "I", "N", "G", " ">>

\* The clauses of the outermost query: what follows the sub-query used as base table
OuterClauses(statement) ==
    LET at == LastIndexOf(statement, SubQueryAlias)
    IN IF at = 0 THEN statement ELSE SubSeq(statement, at + Len(SubQueryAlias), Len(statement))

WherePart(statement) ==
    LET outer == OuterClauses(statement)
        at == LastIndexOf(outer, HavingKeyword)
    IN IF at = 0 THEN outer ELSE SubSeq(outer, 1, at - 1)

HavingPart(statement) ==
    LET outer == OuterClauses(statement)
        at == LastIndexOf(outer, HavingKeyword)
    IN IF at = 0 THEN <<>> ELSE SubSeq(outer, at, Len(outer))

C12_GlobalPlaceholderUniqueness ==
    ret.op = "get_statement" =>
        LET P == Placeholders(ret.statement)
            before == Len(Table_get_parameters(generator.base_table))
        IN /\ Len(P) = Len(ret.params)
           /\ \A j, k \in 1..Len(P) : P[j] = P[k] => j = k
           /\ Cardinality(Range(P)) = Len(ret.params)
           /\ Len(generator.conditions.conditions) > 0 =>
                 Placeholders(WherePart(ret.statement))[1] = before + 1

(***************************************************************************)
(* C13.  INSERT rendering: for a batch with K >= 1 columns and R >= 1      *)
(* records, InsertRecords::build_sql renders a VALUES list of exactly R    *)
(* parenthesized tuples of K placeholders each, numbered $1..$(K*R) in     *)
(* row-major order, and get_flat_values returns the K*R values in the      *)
(* same order.                                                             *)
(***************************************************************************)
ValuesKeyword == <<" ", "V", "A", "L", "U", "E", "S", " ">>

ClaimedTuple(row, K) ==
    <<"(">> \o join([k \in 1..K |-> <<"$">> \o to_string((row - 1) * K + k)], <<",", " ">>)
    \o <<")">>

ClaimedValuesList(K, R) == join([row \in 1..R |-> ClaimedTuple(row, K)], <<",", " ">>)

ValuesList(statement) ==
    LET at == LastIndexOf(statement, ValuesKeyword)
    IN SubSeq(statement, at + Len(ValuesKeyword), Len(statement))

C13_InsertRendering ==
    LET K == Len(insert_records.keys)
        R == Len(insert_records.insert_records)
    IN (K >= 1 /\ R >= 1) =>
          /\ ValuesList(InsertRecords_build_sql(insert_records, TableT)) = ClaimedValuesList(K, R)
          /\ Placeholders(InsertRecords_build_sql(insert_records, TableT)) = OneToN(K * R)
          /\ InsertRecords_get_flat_values(insert_records)
             = [n \in 1..(K * R) |->
                   insert_records.insert_records[((n - 1) \div K) + 1].values[((n - 1) % K) + 1]]

(***************************************************************************)
(* C14.  Arity mismatches are rejected at append time.  As claimed:        *)
(* add_record with a record whose length differs from the column list,     *)
(* and add_join_table (given valid names) with join_columns and            *)
(* destination_columns of different lengths, return InputInconsistentError *)
(* and append nothing; hence every stored record has as many values as     *)
(* there are columns and every stored join has equally many join and       *)
(* destination columns.  As the code has it, add_record returns            *)
(* InputInconsistentError given valid column names; a batch with an        *)
(* invalid column name answers InputInvalidError whatever the length.      *)
(***************************************************************************)
StoredArity ==
    /\ \A r \in 1..Len(insert_records.insert_records) :
          Len(insert_records.insert_records[r].values) = Len(insert_records.keys)
    /\ \A j \in 1..Len(join_tables) :
          Len(join_tables[j].join_columns) = Len(join_tables[j].destination_columns)

ValidNames(names) == \A i \in 1..Len(names) : validate_alphanumeric_name(names[i], <<"_">>)

JoinMismatchRejected ==
    (/\ ret'.op = "add_join_table"
     /\ ValidNames(<<ret'.input.schema, ret'.input.table_name>>)
     /\ ValidNames(ret'.input.join_columns)
     /\ ValidNames(ret'.input.destination_columns)
     /\ Len(ret'.input.join_columns) # Len(ret'.input.destination_columns))
    => (ret'.result = "InputInconsistentError" /\ join_tables' = join_tables)

C14_ArityMismatchRejectedAsClaimed ==
    [][/\ (ret'.op = "add_record" /\ Len(ret'.input) # Len(insert_records.keys))
          => (ret'.result = "InputInconsistentError" /\ insert_records' = insert_records)
       /\ JoinMismatchRejected
       /\ StoredArity']_vars

C14_ArityMismatchRejected ==
    [][/\ (ret'.op = "add_record" /\ Len(ret'.input) # Len(insert_records.keys))
          => /\ insert_records' = insert_records
             /\ ret'.result = IF ValidNames(insert_records.keys)
                              THEN "InputInconsistentError" ELSE "InputInvalidError"
       /\ JoinMismatchRejected
       /\ StoredArity']_vars

C14_Witness ==
    /\ ret.op = "add_record"
    /\ ret.result = "InputInconsistentError"
    /\ Len(ret.input) # Len(insert_records.keys)
    /\ Len(insert_records.insert_records) >= 1
    /\ Len(join_tables) >= 1


(***************************************************************************)
(* C15.  Every column name that appears in an INSERT statement rendered    *)
(* from an InsertRecords batch and passed to PostgresBase::insert has      *)
(* passed identifier validation, for every batch, also one built with      *)
(* new() to which no record was ever added.                                *)
(***************************************************************************)
C15_InsertColumnsValidated ==
    (ret.op = "insert" /\ ret.built)
    => /\ ret.statement = InsertRecords_build_sql(insert_records, base.table_name)
       /\ \A k \in 1..Len(insert_records.keys) :
             /\ ContainsText(ret.statement, insert_records.keys[k])
             /\ validate_string(insert_records.keys[k]) = "Ok"


(***************************************************************************)
(* C16.  Suffix hints in str_to_param: for text ending in `i16`, a         *)
(* remainder that fits 16 bits yields SmallInt, a remainder that is an     *)
(* integer fitting 64 bits but not 16 bits yields an overflow error naming *)
(* i16 (as for "99999999999i16"), and only a remainder that parses as      *)
(* neither yields Text holding the full literal including the tag; text    *)
(* ending in `i64` whose remainder fits 64 bits yields BigInt ("42i64" ->  *)
(* BigInt(42)), and untagged "42" yields Int(42).                          *)
(*                                                                         *)
(* The claim's words are stated on the literal itself: an integer literal  *)
(* is an optional sign and digits; its magnitude is read without leading   *)
(* zeros and compared by length, and digit by digit only against the       *)
(* limit literals of the same length.                                      *)
(***************************************************************************)
IsIntegerLiteral(t) ==
    /\ Len(t) >= 1
    /\ LET body == IF t[1] \in {"+", "-"} THEN SubSeq(t, 2, Len(t)) ELSE t
       IN Len(body) >= 1 /\ \A i \in 1..Len(body) : body[i] \in AsciiDigits

\* the significant digits of an integer literal
Magnitude(t) ==
    LET body == IF t[1] \in {"+", "-"} THEN SubSeq(t, 2, Len(t)) ELSE t
        nz == {i \in 1..Len(body) : body[i] # "0"}
    IN IF nz = {} THEN <<"0">>
       ELSE SubSeq(body, CHOOSE i \in nz : \A j \in nz : i <= j, Len(body))

Fits16(t) ==
    /\ IsIntegerLiteral(t)
    /\ Len(Magnitude(t)) <= 5
    /\ nat_value(Magnitude(t)) <= (IF t[1] = "-" THEN 32768 ELSE 32767)

Fits64(t) ==
    /\ IsIntegerLiteral(t)
    /\ \/ Len(Magnitude(t)) <= 18
       \/ Magnitude(t) = <<"9", "2", "2", "3", "3", "7", "2", "0", "3", "6", "8", "5", "4", "7", "7", "5", "8", "0", "7">>
       \/ /\ t[1] = "-"
          /\ Magnitude(t) = <<"9", "2", "2", "3", "3", "7", "2", "0", "3", "6", "8", "5", "4", "7", "7", "5", "8", "0", "8">>

\* Display of the integer an integer literal writes
IntegerWritten(t) ==
    IF t[1] = "-" /\ Magnitude(t) # <<"0">> THEN <<"-">> \o Magnitude(t) ELSE Magnitude(t)

Remainder(t) == SubSeq(t, 1, Len(t) - 3)
Inferred == ret.bound[1]

C16_SuffixHints ==
    ret.op = "str_to_param" =>
       /\ ends_with(arg, <<"i", "1", "6">>) =>
             /\ Fits16(Remainder(arg)) =>
                   /\ Inferred.ok /\ Inferred.variant = "SmallInt"
                   /\ Inferred.value = IntegerWritten(Remainder(arg))
             /\ (Fits64(Remainder(arg)) /\ ~Fits16(Remainder(arg))) =>
                   /\ ~Inferred.ok /\ Inferred.variant = "ParseIntError"
                   /\ Inferred.value = <<"i", "1", "6">>
             /\ (~Fits64(Remainder(arg)) /\ ~Fits16(Remainder(arg))) <=>
                   (Inferred.ok /\ Inferred.variant = "Text")
             /\ (Inferred.ok /\ Inferred.variant = "Text") => Inferred.value = arg
       /\ (ends_with(arg, <<"i", "6", "4">>) /\ Fits64(Remainder(arg))) =>
             /\ Inferred.ok /\ Inferred.variant = "BigInt"
             /\ Inferred.value = IntegerWritten(Remainder(arg))
       /\ arg = <<"4", "2", "i", "6", "4">> => Inferred.value = <<"4", "2">>
       /\ arg = <<"4", "2">> =>
             Inferred.ok /\ Inferred.variant = "Int" /\ Inferred.value = <<"4", "2">>
       /\ arg = <<"9", "9", "9", "9", "9", "9", "9", "9", "9", "9", "9", "i", "1", "6">> =>
             ~Inferred.ok /\ Inferred.value = <<"i", "1", "6">>

C16_Witness ==
    /\ ret.op = "str_to_param"
    /\ arg = <<"9", "9", "9", "9", "9", "9", "9", "9", "9", "9", "9", "i", "1", "6">>
    /\ ~Inferred.ok

(***************************************************************************)
(* C17.  Unsuffixed overflow: for every unsuffixed decimal integer literal *)
(* that lies outside the 32-bit signed range but inside the 64-bit signed  *)
(* range, str_to_param returns an overflow error; such a literal is never  *)
(* returned as Float, as another numeric variant, or as Text.              *)
(***************************************************************************)
Fits32(t) ==
    /\ IsIntegerLiteral(t)
    /\ \/ Len(Magnitude(t)) <= 9
       \/ /\ Len(Magnitude(t)) = 10
          /\ nat_value(SubSeq(Magnitude(t), 1, 9)) < 214748364
       \/ /\ Len(Magnitude(t)) = 10
          /\ nat_value(SubSeq(Magnitude(t), 1, 9)) = 214748364
          /\ nat_value(<<Magnitude(t)[10]>>) <= (IF t[1] = "-" THEN 8 ELSE 7)

C17_UnsuffixedOverflow ==
    (/\ ret.op = "str_to_param"
     /\ Fits64(arg) /\ ~Fits32(arg))
    => (~Inferred.ok /\ Inferred.variant = "ParseIntError")


(***************************************************************************)
(* C18.  No text whose year is written with two digits (or as a bare       *)
(* century) is accepted as Date or DateTime: for every such text           *)
(* str_to_param returns an unsupported/ambiguous-format error rather than  *)
(* a typed date.                                                           *)
(*                                                                         *)
(* The texts with a two-digit year are, among the texts inferred: a month  *)
(* name, a day of that month and two digits of year; and three groups of   *)
(* two digits of which one order is a month, a day of it and a year; each  *)
(* alone or followed by a time.                                            *)
(***************************************************************************)
TwoDigits(g) == Len(g) = 2 /\ \A i \in 1..2 : g[i] \in AsciiDigits

IsMonthAndDay(m, d) == nat_value(m) \in 1..12 /\ nat_value(d) \in 1..28

IsDateWithTwoDigitYear(t) ==
    \/ \E word \in MonthWords, d \in DateGroups, y \in DateGroups :
          /\ TwoDigits(d) /\ TwoDigits(y) /\ nat_value(d) \in 1..28
          /\ t = word \o <<" ">> \o d \o <<",", " ">> \o y
    \/ \E g1 \in DateGroups, g2 \in DateGroups, g3 \in DateGroups, sep \in {"-", "/"} :
          /\ TwoDigits(g1) /\ TwoDigits(g2) /\ TwoDigits(g3)
          /\ \/ IsMonthAndDay(g1, g2) \/ IsMonthAndDay(g2, g1) \/ IsMonthAndDay(g1, g3)
             \/ IsMonthAndDay(g3, g1) \/ IsMonthAndDay(g2, g3) \/ IsMonthAndDay(g3, g2)
          /\ t = g1 \o <<sep>> \o g2 \o <<sep>> \o g3

HasTwoDigitYear(t) ==
    \/ IsDateWithTwoDigitYear(t)
    \/ \E n \in 1..Len(t) :
          /\ IsDateWithTwoDigitYear(SubSeq(t, 1, n - 1))
          /\ t[n] \in {" ", "T"}
          /\ SubSeq(t, n + 1, Len(t)) \in TimeTexts

C18_TwoDigitYearRejected ==
    (ret.op = "str_to_param" /\ HasTwoDigitYear(arg))
    => (~Inferred.ok /\ Inferred.variant = "ParseUnsupportedError")

(***************************************************************************)
(* C19.  Ambiguity is never resolved silently: whenever str_to_param       *)
(* returns a Date for a text, all accepted date patterns that parse that   *)
(* text yield the same calendar date (a text that two accepted patterns    *)
(* read as different dates is reported as an error, not returned as the    *)
(* first match).                                                           *)
(***************************************************************************)
AcceptedReadings(t) ==
    {NaiveDate_parse_from_str(t, support_date_formats[i])[1] :
        i \in {j \in 1..Len(support_date_formats) :
                  NaiveDate_parse_from_str(t, support_date_formats[j]) # <<>>}}

C19_AmbiguityNotResolved ==
    (ret.op = "str_to_param" /\ Inferred.ok /\ Inferred.variant = "Date")
    => \A d1 \in AcceptedReadings(arg), d2 \in AcceptedReadings(arg) :
          (~starts_with_00(d1) /\ ~starts_with_00(d2)) => d1 = d2

(***************************************************************************)
(* C20.  Inferring "2024-13-40" yields an unsupported-format error and not *)
(* Text; in general a date-shaped text (three digit groups joined by `-`   *)
(* or `/`, four-digit year) that no accepted pattern parses because its    *)
(* month or day is out of range is never returned by str_to_param as Text. *)
(***************************************************************************)
IsDateShaped(t) ==
    \E g1 \in DateGroups, g2 \in DateGroups, g3 \in DateGroups, sep \in {"-", "/"} :
        /\ t = g1 \o <<sep>> \o g2 \o <<sep>> \o g3
        /\ Cardinality({k \in 1..3 : Len(<<g1, g2, g3>>[k]) = 4}) = 1
        /\ \A k \in 1..3 : Len(<<g1, g2, g3>>[k]) \in {1, 2, 4}

C20_OutOfRangeDateNotText ==
    /\ (ret.op = "str_to_param" /\ IsDateShaped(arg) /\ AcceptedReadings(arg) = {})
       => ~(Inferred.ok /\ Inferred.variant = "Text")
    /\ (ret.op = "str_to_param" /\ arg = <<"2", "0", "2", "4", "-", "1", "3", "-", "4", "0">>)
       => (~Inferred.ok /\ Inferred.variant = "ParseUnsupportedError")

(***************************************************************************)
(* C21.  A timestamp with a timezone is rejected.                          *)
(***************************************************************************)
\* The text parses as a timestamp with a zone: as RFC 3339, RFC 2822 or
\* `%Y-%m-%d %H:%M:%S %z`, or under an accepted date-time pattern followed by
\* a zone specifier while no accepted date-time pattern reads it without one
\* (%Z reads any run of characters, the seconds of a plain timestamp too).
CarriesZone(data) ==
    \/ parse_datetime_with_zones(data)
    \/ /\ datetime_matches(data, support_date_formats, unsupported_time_formats) # {}
       /\ datetime_matches(data, support_date_formats, support_time_formats) = {}

\* C21: a text that parses as a timestamp with a timezone always makes
\* str_to_param return an error; it is never returned as Text or as DateTime.
C21_ZonedTimestampRejected ==
    (ret.op = "str_to_param" /\ CarriesZone(arg)) => ~Inferred.ok

(***************************************************************************)
(* C22.  The statement QueryGenerator::get_statement returns has its       *)
(* clauses in the order SELECT, FROM, JOIN, WHERE, GROUP BY, HAVING, ORDER *)
(* BY whatever order the add_* calls came in, and JOIN, WHERE, GROUP BY,   *)
(* HAVING and ORDER BY are in the text exactly when the generator holds a  *)
(* join table, a condition, a grouping, a group condition, a sort rule.    *)
(***************************************************************************)
Places(text, part) ==
    {i \in 1..(Len(text) - Len(part) + 1) : SubSeq(text, i, i + Len(part) - 1) = part}

ClauseKeywords ==
    <<<<"F", "R", "O", "M", " ">>,
      <<"J", "O", "I", "N", " ">>,
      <<"W", "H", "E", "R", "E", " ">>,
      <<"G", "R", "O", "U", "P", " ", "B", "Y", " ">>,
      <<"H", "A", "V", "I", "N", "G", " ">>,
      <<"O", "R", "D", "E", "R", " ", "B", "Y", " ">>>>

ClauseCounts(self) ==
    <<1,
      Len(self.join_tables),
      IF Len(self.conditions.conditions) # 0 THEN 1 ELSE 0,
      IF Len(self.groupings) # 0 THEN 1 ELSE 0,
      IF Len(self.group_conditions) # 0 THEN 1 ELSE 0,
      IF Len(self.sort_rules) # 0 THEN 1 ELSE 0>>

\* C22: the clauses of a SELECT statement come in the fixed order and each
\* optional clause is there exactly when its builder holds an item
C22_SkeletonOrder ==
    ret.op = "get_statement" =>
        /\ Places(ret.statement, <<"S", "E", "L", "E", "C", "T", " ">>) = {1}
        /\ \A k \in 1..6 :
              Cardinality(Places(ret.statement, ClauseKeywords[k])) = ClauseCounts(generator)[k]
        /\ \A k \in 1..6 : \A l \in (k + 1)..6 :
              \A i \in Places(ret.statement, ClauseKeywords[k]) :
                 \A j \in Places(ret.statement, ClauseKeywords[l]) : i < j

C22_Witness ==
    /\ ret.op = "get_statement"
    /\ Len(generator.join_tables) # 0
    /\ Len(generator.conditions.conditions) # 0
    /\ Len(generator.groupings) # 0
    /\ Len(generator.group_conditions) # 0
    /\ Len(generator.sort_rules) = MaxSortRules


(***************************************************************************)
(* C23.  Inference fails closed before execution.  On a connected          *)
(* PostgresBase, a call that reaches execute_core with a parameter text    *)
(* that fails inference returns SQLExecutionError with neither prepare nor *)
(* execute/query invoked; when every text infers, the parameters handed to *)
(* the driver are as many as the texts and the i-th is the inference of    *)
(* the i-th text.                                                          *)
(***************************************************************************)
ReachedInference == ret.built /\ base.client = "Some"

FailsInference(params) == \E i \in 1..Len(params) : ~str_to_param(params[i]).ok

\* C23: a parameter that fails inference stops the call before the driver is
\* used, and otherwise the bound list is the element-wise inference
C23_InferenceFailsClosed ==
    ReachedInference =>
        IF FailsInference(ret.params)
        THEN ret.result = "SQLExecutionError" /\ ~ret.prepared /\ ~ret.executed
        ELSE ret.executed =>
                /\ Len(ret.bound) = Len(ret.params)
                /\ \A i \in 1..Len(ret.params) : ret.bound[i] = str_to_param(ret.params[i])

C23_Witness ==
    /\ ReachedInference
    /\ Len(ret.params) >= 2
    /\ str_to_param(ret.params[1]).ok
    /\ FailsInference(ret.params)
    /\ ret.result = "SQLExecutionError"


(***************************************************************************)
(* C24.  HAVING chains render as WHERE chains do: with two or more HAVING  *)
(* predicates, GroupConditions::get_total_statement puts AND or OR between *)
(* every two consecutive predicates and nothing before the first.          *)
(***************************************************************************)
LogicalKeywords == {<<"A", "N", "D">>, <<"O", "R">>}

HavingPredicate(self, i) ==
    GroupCondition_get_statement(self.group_conditions[i], counter_after_where(self) + i - 1)

\* C24: in the statement of a generator with several HAVING predicates the
\* first predicate follows HAVING directly and each later one follows its
\* predecessor after a logical keyword
C24_HavingKeywords ==
    (ret.op = "get_statement" /\ Len(generator.group_conditions) >= 2) =>
        /\ ContainsText(ret.statement,
                        <<"H", "A", "V", "I", "N", "G", " ">> \o HavingPredicate(generator, 1))
        /\ \A i \in 1..(Len(generator.group_conditions) - 1) :
              \E keyword \in LogicalKeywords :
                 ContainsText(ret.statement,
                              HavingPredicate(generator, i) \o SP \o keyword \o SP
                              \o HavingPredicate(generator, i + 1))


(***************************************************************************)
(* C25.  After any sequence of add_condition calls on the generator's      *)
(* chain of WHERE predicates, bind_methods is as long as conditions and    *)
(* starts with FirstCondition, and get_condition_statement renders every   *)
(* stored condition, none with a keyword before the first.                 *)
(***************************************************************************)
\* C25: the markers pair the conditions one to one, and the WHERE text holds
\* every stored condition
C25_ChainPairing ==
    /\ Len(where_chain.bind_methods) = Len(where_chain.conditions)
    /\ Len(where_chain.bind_methods) # 0 => where_chain.bind_methods[1] = "FirstCondition"
    /\ ret.op = "get_condition_statement" =>
          /\ \A i \in 1..Len(where_chain.conditions) :
                ContainsText(ret.statement,
                             Condition_get_condition_statement(where_chain.conditions[i]))
          /\ ContainsText(ret.statement,
                          <<"W", "H", "E", "R", "E", " ">>
                          \o Condition_get_condition_statement(where_chain.conditions[1]))

(***************************************************************************)
(* C26.  The WHERE text of the generator's chain shows a placeholder for   *)
(* the bound value and never the value's text: it is the same text for any *)
(* two chains that differ only in their ref_value.                         *)
(***************************************************************************)
BaseConditionsWithValue(self, v) ==
    [self EXCEPT !.conditions = [i \in 1..Len(self.conditions) |->
                                    [self.conditions[i] EXCEPT !.ref_value = v]]]

\* C26: replacing every ref_value of the chain leaves the WHERE text as it is
C26_RefValueNotInText ==
    ret.op = "get_condition_statement" =>
        \A v \in Values :
           BaseConditions_get_condition_statement(BaseConditionsWithValue(where_chain, v))
               = ret.statement


(***************************************************************************)
(* C27.  The display text is the statement with its placeholders filled    *)
(* in: get_update_text and get_insert_text equal the statement build_sql   *)
(* renders for "main_table_name" with each placeholder $N replaced by the  *)
(* N-th flat value and nothing else changed.                               *)
(***************************************************************************)
\* One pass over the statement: each "$" with its longest run of digits N is
\* replaced by the N-th value, and what a value holds is not read again
RECURSIVE Substituted(_, _)
Substituted(text, values) ==
    IF text = <<>> THEN <<>>
    ELSE IF text[1] = "$" /\ Len(text) >= 2 /\ text[2] \in AsciiDigits
    THEN LET j == CHOOSE j \in 2..Len(text) :
                      /\ \A k \in 2..j : text[k] \in AsciiDigits
                      /\ j < Len(text) => text[j + 1] \notin AsciiDigits
             n == nat_value(SubSeq(text, 2, j))
         IN (IF n \in 1..Len(values) THEN values[n] ELSE SubSeq(text, 1, j))
            \o Substituted(SubSeq(text, j + 1, Len(text)), values)
    ELSE <<text[1]>> \o Substituted(Tail(text), values)

\* C27: the display text of a batch or of update sets is the statement with
\* the N-th value in the place of $N
C27_DisplayTextSubstitutes ==
    /\ ret.op = "get_update_text" =>
          ret.statement = Substituted(UpdateSets_build_sql(update_sets, MainTableName),
                                      UpdateSets_get_flat_values(update_sets))
    /\ ret.op = "get_insert_text" =>
          ret.statement = Substituted(InsertRecords_build_sql(insert_records, MainTableName),
                                      InsertRecords_get_flat_values(insert_records))


(***************************************************************************)
(* C28.  A failing append changes nothing: when Conditions::add_condition  *)
(* or add_condition_from_str returns an error (invalid column characters,  *)
(* unknown operator or chain string, FirstCondition on a non-empty chain,  *)
(* a joined-table schema without a table), logics and conditions are as    *)
(* before the call, so later appends see the chain the failed call found.  *)
(***************************************************************************)
FailedAppend(r) == r.op \in {"add_condition", "add_condition_from_str"} /\ r.result # "Ok"

\* C28: a step that is a failed append leaves the chain as it was
C28_FailedAppendChangesNothing ==
    [][FailedAppend(ret') => conditions' = conditions]_vars

C28_Witness ==
    /\ FailedAppend(ret)
    /\ ret.detail = "table_name_must_be_specified"
    /\ Len(conditions.conditions) = 1
    /\ Len(conditions.logics) = 1


(***************************************************************************)
(* C29.  Connect before execute: a query, insert, update_condition or      *)
(* delete that reaches execute_core on a PostgresBase on which no connect  *)
(* has succeeded returns ConnectionNotFoundError with neither prepare nor  *)
(* execute/query invoked; a connect that fails leaves the client field as  *)
(* it was, and a connect that succeeds, first or repeated, leaves it set.  *)
(***************************************************************************)
ExecutingCalls == {"query", "insert", "update_condition", "delete"}

\* the client is set by a successful connect and by nothing else
ClientSetByConnect ==
    /\ (ret'.op = "connect" /\ ret'.result = "Ok") => base'.client = "Some"
    /\ (ret'.op = "connect" /\ ret'.result # "Ok") => base'.client = base.client
    /\ base'.client # base.client => (ret'.op = "connect" /\ ret'.result = "Ok")

\* C29: without a client a call that reaches execute_core ends in
\* ConnectionNotFoundError before the driver is used, and only a successful
\* connect sets the client
C29_ConnectBeforeExecute ==
    /\ []((ret.op \in ExecutingCalls /\ ret.built /\ base.client = "None")
            => (ret.result = "ConnectionNotFoundError" /\ ~ret.prepared /\ ~ret.executed))
    /\ [][ClientSetByConnect]_vars

C29_Witness ==
    /\ ret.op = "update_condition"
    /\ ret.built
    /\ base.client = "None"
    /\ ret.result = "ConnectionNotFoundError"
    /\ \E i \in 1..Len(ret.params) : ret.params[i] = ValDollar


(***************************************************************************)
(* C30.  The JSON query methods query_json, query_condition_json and       *)
(* query_inner_join_conditions_json return Ok or Err for every outcome of  *)
(* the underlying query, a successful query with zero rows included: they  *)
(* never panic on an empty row set.                                        *)
(***************************************************************************)
JsonCalls == {"query_json", "query_condition_json", "query_inner_join_conditions_json"}

\* C30: a JSON query ends in Ok or in an error, never in a panic
C30_JsonNeverPanics ==
    ret.op \in JsonCalls => ret.result # "panicked"

====
